---- MODULE Spec2Model ----
(***************************************************************************)
(* Phase scheduler of the experiments package (src/experiment.py,          *)
(* src/phase.py): Experiment.run with its nested run_a_phase, _find_phase, *)
(* Experiment.save and backupFile, Phase.__init__ and Phase.run; and the   *)
(* nested-loop iterator Unroller (src/loop_unroller.py).                   *)
(*                                                                         *)
(* A Python string is modelled as a sequence of one-character strings, so  *)
(* that lower(), strip() and the "-phase" suffix are computed and not      *)
(* assumed.                                                                *)
(***************************************************************************)
EXTENDS Integers, Sequences, FiniteSets, TLC

VARIABLES
    phases,       \* Experiment.phases: the registered Phase objects, in order
    saveresult,   \* Experiment.saveresult
    run_counter,  \* Phase.run_counter of each registered phase
    asked,        \* phases that have already raised their one-time dependency request
    result,       \* Experiment.result: key -> value
    file,         \* content of the shelve at config['RESULT_FILE'], or NoFile
    fileOld,      \* content of the backup RESULT_FILE + ".old", or NoFile
    pc,           \* position of the caller / of Experiment.run
    req,          \* the list `phases` of the running call (after line 853)
    opts,         \* stopOnException, force, nosave of the running call, and
                  \* whether its argument phases was 'all'
    idx,          \* position of the for loop of line 859 in req
    stack,        \* the active run_a_phase frames, outermost first
    retval,       \* the list retval of line 847
    dflt,         \* the default list of run_a_phase's retval parameter (line 894)
    outcome,      \* how the call ended: "none", "returned", or the exception raised
    requested,    \* number of names requested of Experiment.run so far
    start,        \* run_counter, result, file and fileOld when the call began
    order,        \* the invocations of a phase's run in this call, in order, each
                  \* with how it ended: "dep", "raised" or "returned"
    events,       \* per loop iteration of this call: the phase and what became of
                  \* the request: "error" (a predicate raised), "skipped",
                  \* "forbidden", "running", "completed" or "failed"
    saves,        \* number of calls of Experiment.save made by this call
    sought,       \* the argument of the last direct call of _find_phase
    found,        \* what that call returned
    built,        \* the last Phase constructed, or the error its __init__ raised
    loops,        \* Unroller.loops: the (variable, values) pairs, in order
    total,        \* Unroller.total
    traversals,   \* the generators __iter__ has returned, oldest first
    resultfile,   \* Experiment.resultfile: a path, or '' for the default name
    reusefile,    \* config['REUSE_FILE']: the path reused, or '' for none
    RESULT_FILE,  \* config['RESULT_FILE']: unset, None or a path
    elsewhere,    \* the files at every path; the entries at RESULT_FILE and
                  \* at RESULT_FILE + ".old" are kept in file and fileOld
    pickler,      \* the Pickler shelve imports: "cPickle", or "pickle" in a
                  \* build without cPickle
    setup,        \* how the last Experiment(...) ended: "ok" or "ValueError"
    made,         \* the number of Experiments constructed
    checkpoint,   \* the result store as the last save of this Experiment found
                  \* it, and the keys that save wrote
    keys,         \* the keys of result in the order of their insertion
    heap,         \* the mutable objects: identity -> content
    kept,         \* the result store of the Experiment before this one
    reply         \* what the last operation on the Config ex.result gave: the
                  \* value it returned or the exception it raised

\* the state of the Unroller
unroller == <<loops, total, traversals>>

\* the files and the settings that name them
files == <<resultfile, reusefile, RESULT_FILE, elsewhere, pickler, setup, made,
           checkpoint>>

\* the objects the result stores hold
objects == <<keys, heap, kept>>

\* the state outside Experiment.run
others == <<sought, found, built, unroller, files, objects, reply>>

vars == <<phases, saveresult, run_counter, asked, result, file, fileOld, pc, req,
          opts, idx, stack, retval, dflt, outcome, requested, start, order, events,
          saves, others>>

(***************************************************************************)
(* Bounds of the model.                                                    *)
(***************************************************************************)
MaxRequests == 3   \* names requested of Experiment.run, over all its calls, and
                   \* items the caller assigns in the result store
MaxDepth    == 3   \* nested run_a_phase frames

(***************************************************************************)
(* Strings.                                                                *)
(***************************************************************************)
\* str.lower() on one character
LowerChar(c) ==
    CASE c = "A" -> "a"
      [] c = "B" -> "b"
      [] c = "C" -> "c"
      [] c = "X" -> "x"
      [] c = "L" -> "l"
      [] OTHER -> c

\* str.lower()
Lower(s) == [k \in 1..Len(s) |-> LowerChar(s[k])]

\* str.strip(): leading and trailing blanks removed
RECURSIVE LStrip(_)
LStrip(s) == IF s # <<>> /\ Head(s) = " " THEN LStrip(Tail(s)) ELSE s

RECURSIVE RStrip(_)
RStrip(s) ==
    IF s # <<>> /\ s[Len(s)] = " " THEN RStrip(SubSeq(s, 1, Len(s) - 1)) ELSE s

Strip(s) == RStrip(LStrip(s))

PhaseSuffix  == <<"-", "p", "h", "a", "s", "e">>
ResultSuffix == <<"_", "r", "e", "s", "u", "l", "t">>
All          == <<"a", "l", "l">>

ConfigKey    == <<"c", "o", "n", "f", "i", "g">>

NotBuilt == [name |-> <<>>, has_wrap_function |-> FALSE, run_counter |-> 0,
             error |-> "unbuilt"]   \* no Phase has been constructed
NoFile == [exists |-> FALSE, db |-> <<>>]   \* os.path.exists(path) is false
Unset  == [is |-> "unset", path |-> <<>>]   \* the key is not in the config
NoPath == [is |-> "None", path |-> <<>>]    \* the key is set to None
PathOf(p) == [is |-> "str", path |-> p]     \* the key is set to a path
None   == "None"     \* Python's None as a value
NoPhase == 0         \* _find_phase's None; a registered phase is its index in phases
NoReply == [op |-> "none", name |-> <<>>, exc |-> "none", value |-> "None"]

(***************************************************************************)
(* Phases.  A registered phase is a record:                                *)
(*   name    Phase.name                                                    *)
(*   style   "wrap":  Phase.run around a wrapped function (phase.py 72-84);*)
(*           "late":  a subclass whose run does its work and then counts   *)
(*                    (TestPhase1, AnotherTestPhase);                      *)
(*           "early": a subclass whose run counts first (PhaseThatFails)   *)
(*   needs   what needsrun does: "true", "false", "ifmissing" (true while  *)
(*           the phase's own key is not in result, as TestPhase1), or the  *)
(*           exception it raises                                           *)
(*   allowed what is_allowed_to_run does: "true", "false" or the exception *)
(*   fails   the work raises Exception                                     *)
(*   out     the value the work produces (None: nothing)                   *)
(*   key     the result key a subclass writes                              *)
(*   dep     when run raises DependsOnAnotherPhase(on): "never", "first"   *)
(*           (on the first attempt only) or "always"                       *)
(***************************************************************************)
Ph(name, style, needs, allowed, fails, out, dep, on) ==
    [name |-> name, style |-> style, needs |-> needs, allowed |-> allowed,
     fails |-> fails, out |-> out, key |-> Lower(name) \o <<"_", "k">>,
     dep |-> dep, on |-> on]

PhaseIds == 1..Len(phases)

\* Experiment._find_phase for a str argument: the first registered phase whose
\* lowered, stripped name, with or without "-phase", equals the lowered,
\* stripped argument
\* mutant: the name with "-phase" at its end is not accepted
Matches_nosuffix(p, phase) == Strip(Lower(p.name)) = Strip(Lower(phase))

Matches(p, phase) ==
    \/ Strip(Lower(p.name)) = Strip(Lower(phase))
    \/ Strip(Lower(p.name)) \o PhaseSuffix = Strip(Lower(phase))

\* mutant: a name that matches some registered phase resolves to the first
\* registered phase
_find_phase_first(phase) ==
    IF \E k \in PhaseIds : Matches(phases[k], phase) THEN 1 ELSE NoPhase

\* mutant: a name that matches some registered phase resolves to the last
\* registered phase
_find_phase_last(phase) ==
    IF \E k \in PhaseIds : Matches(phases[k], phase) THEN Len(phases) ELSE NoPhase

_find_phase(phase) ==
    IF \E k \in PhaseIds : Matches(phases[k], phase)
    THEN CHOOSE k \in PhaseIds :
            /\ Matches(phases[k], phase)
            /\ \A j \in 1..(k - 1) : ~Matches(phases[j], phase)
    ELSE NoPhase

\* lines 848-853: the argument `phases` of run, made a list of names
ExpandRequest(arg) ==
    IF arg.kind = "str"
    THEN IF arg.s = All
         THEN [k \in PhaseIds |-> phases[k].name]
         ELSE <<arg.s>>
    ELSE arg.l

\* mutant: only the first requested name is validated
AllResolve_first(names) == names = <<>> \/ _find_phase(names[1]) # NoPhase

\* lines 856-858: every requested name resolves
AllResolve(names) == \A k \in 1..Len(names) : _find_phase(names[k]) # NoPhase

\* P.needsrun(...) of line 876
NeedsEval(p) ==
    IF p.needs = "ifmissing"
    THEN (IF p.key \in DOMAIN result THEN "false" ELSE "true")
    ELSE p.needs

\* mutant: only KeyError is caught around needsrun
NeedsRun_keyonly(p, force) ==
    IF force THEN "true"
    ELSE IF NeedsEval(p) = "KeyError" THEN "true" ELSE NeedsEval(p)

\* mutant: force does not replace the needsrun check
NeedsRun_noforce(p, force) ==
    IF NeedsEval(p) \in {"KeyError", "AttributeError", "AssertionError"}
    THEN "true"
    ELSE NeedsEval(p)

\* lines 871-885: the value of needsrun, or the exception that leaves the try
NeedsRun(p, force) ==
    IF force THEN "true"
    ELSE IF NeedsEval(p) \in {"KeyError", "AttributeError", "AssertionError"}
         THEN "true"
         ELSE NeedsEval(p)

\* lines 887-891: the value of allowed, or the exception that leaves the try
Allowed(p) == IF p.allowed = "KeyError" THEN "false" ELSE p.allowed

\* dict item assignment
Put(d, k, v) == [x \in DOMAIN d \cup {k} |-> IF x = k THEN v ELSE d[x]]

\* mutant: no phase ever raises DependsOnAnotherPhase
DepFires_never(i) == FALSE

\* whether this attempt of phase i raises DependsOnAnotherPhase
DepFires(i) ==
    \/ phases[i].dep = "always"
    \/ phases[i].dep = "first" /\ i \notin asked

\* mutant: Phase.run counts before it calls the wrapped function
CounterOnRaise_always(i) == run_counter[i] + 1

\* run_counter after an invocation of phase i that raises
CounterOnRaise(i) ==
    IF phases[i].style = "early" THEN run_counter[i] + 1 ELSE run_counter[i]

\* mutant: Phase.run stores what the wrapped function returned, None included
ResultAfter_always(i) ==
    LET p == phases[i] IN
    IF p.style = "wrap"
    THEN Put(result, p.name \o ResultSuffix, p.out)
    ELSE Put(result, p.key, p.out)

\* the result store after the work of phase i has ended normally
ResultAfter(i) ==
    LET p == phases[i] IN
    IF p.style = "wrap"
    THEN (IF p.out # None THEN Put(result, p.name \o ResultSuffix, p.out) ELSE result)
    ELSE Put(result, p.key, p.out)

\* what run returns: Phase.run returns r, the test subclasses return nothing
Returned(i) == IF phases[i].style = "wrap" THEN phases[i].out ELSE None

(***************************************************************************)
(* Decisions of Experiment.run.                                            *)
(***************************************************************************)
\* line 892: if needsrun and allowed
ShouldRun(needsrun, allowed) == needsrun = "true" /\ allowed = "true"

\* mutant: the except clause breaks the loop whatever stopOnException is
Halts_always(stopOnException) == TRUE

\* mutant: the except clause never breaks the loop
Halts_never(stopOnException) == FALSE

\* lines 915-920: the except clause breaks the for loop
Halts(stopOnException) == stopOnException

\* mutant: nosave is ignored
SaveWanted_always(nosave) == TRUE

\* line 926: if not nosave
SaveWanted(nosave) == ~nosave

\* mutant: the dependent phase is not attempted again
Retries_never(stage) == FALSE

\* lines 901-906: after the call of line 901 has returned, line 906 calls
\* run_a_phase(the_phase) again
Retries(stage) == stage = "dep"

\* mutant: the break of line 920 leaves run without the checkpoint
NextPc_return(halt) ==
    IF halt THEN "done" ELSE IF idx >= Len(req) THEN "save" ELSE "loop"

\* where the for loop of line 859 goes after the iteration at idx
NextPc(halt) == IF halt \/ idx >= Len(req) THEN "save" ELSE "loop"
\* mutant: the for loop takes the same requested name again
NextIdx_again(halt) == idx

NextIdx(halt) == IF halt \/ idx >= Len(req) THEN idx ELSE idx + 1

NoOpts == [stop |-> FALSE, force |-> FALSE, nosave |-> FALSE, all |-> FALSE]

SetLast(evs, what) == [evs EXCEPT ![Len(evs)].what = what]

Snapshot == [rc |-> run_counter, res |-> result, f |-> file, old |-> fileOld]

(***************************************************************************)
(* Files.                                                                  *)
(***************************************************************************)
\* backupFile(path, ".old"), lines 1136-1142: an existing file is renamed to
\* the backup path, replacing an earlier backup
backupFile(path, backup) ==
    IF path.exists
    THEN [path |-> NoFile, backup |-> path, ok |-> TRUE]
    ELSE [path |-> path, backup |-> backup, ok |-> FALSE]

\* backupFile, lines 1127-1129: the path whose file is moved away
BackupTarget(path) ==
    IF path # <<>> /\ path[Len(path)] = "."
    THEN SubSeq(path, 1, Len(path) - 2)
    ELSE path

\* the values of the result store are strings: an immutable value is itself,
\* a mutable object (a list) is its identity, and heap maps it to its content
Objects == {"o1", "o2", "o3"}
Free    == "free"      \* no object has this identity yet
EmptyList == "list0"   \* the content of []
Appended  == "list1"   \* the content of a list after append
Mutable   == {EmptyList, Appended}

\* what Pickler.dump raises for a value: a generator raises TypeError, a lambda
\* raises the PicklingError of the module the Pickler comes from
PickleError(v) ==
    CASE v = "generator" -> "TypeError"
      [] v = "lambda"    -> IF pickler = "cPickle" THEN "cPickle.PicklingError"
                                                   ELSE "pickle.PicklingError"
      [] OTHER           -> "none"

\* what the pickle of a value holds: the content of a mutable object
Pickled(v) == IF v \in Objects THEN heap[v] ELSE v

\* lines 974-979: the exceptions the loop of save catches
Caught == {"TypeError", "RuntimeError", "pickle.PicklingError"}

\* lines 971-979: `res[k] = v` for the items of d in the order ks, up to the
\* first exception that is not caught
RECURSIVE Dump(_, _, _)
Dump(db, ks, d) ==
    IF ks = <<>> THEN [db |-> db, raised |-> "none"]
    ELSE LET k == Head(ks)
             e == PickleError(d[k])
         IN
         IF e = "none" THEN Dump(Put(db, k, Pickled(d[k])), Tail(ks), d)
         ELSE IF e \in Caught THEN Dump(db, Tail(ks), d)
         ELSE [db |-> db, raised |-> e]

\* shelve.open(path) and the loop `res[k] = v` of lines 970-979
ShelveWrite(path, d) == [exists |-> TRUE, db |-> Dump(path.db, keys, d).db]

\* the exception that leaves save, or "none"
SaveRaises(path, d) == Dump(path.db, keys, d).raised

\* the keys of an OrderedDict after an item assignment made it d
KeysAfter(d) ==
    IF \E k \in DOMAIN d : \A j \in 1..Len(keys) : keys[j] # k
    THEN Append(keys, CHOOSE k \in DOMAIN d : \A j \in 1..Len(keys) : keys[j] # k)
    ELSE keys

OldExt == <<".", "o", "l", "d">>

\* lines 952-955: the path save writes to; without a resultfile it is
\* ./NAME/<unique_ending>_RESULT.shelve, here the path "r"
DefaultFile == <<"r">>
Destination == IF resultfile # <<>> THEN resultfile ELSE DefaultFile

\* the paths of the model: the default result file, a result file whose name
\* ends with ".", and the backups of both under the extensions .old and .bak
DottedFile == <<"r", "s", ".">>
BakExt == <<".", "b", "a", "k">>
Paths == {DefaultFile, DefaultFile \o OldExt, DottedFile, DottedFile \o OldExt,
          DefaultFile \o BakExt, DottedFile \o BakExt}

\* the file at every path
Fs ==
    [p \in Paths |->
        IF p = Destination THEN file
        ELSE IF p = Destination \o OldExt THEN fileOld
        ELSE elsewhere[p]]

\* lines 966-969: backupFile(RESULT_FILE, ".old"); the files RESULT_FILE +
\* ".dir", ".dat" and ".bak" of the next three calls do not exist with a dbm
\* that keeps a shelve in one file
Rotate(fs, path) ==
    LET t == BackupTarget(path)
        b == backupFile(fs[t], fs[t \o OldExt])
    IN
    IF t \in Paths
    THEN [fs EXCEPT ![t] = b.path, ![t \o OldExt] = b.backup]
    ELSE fs

\* lines 966-979: the files after save has rotated and written
Saved == LET fs == Rotate(Fs, Destination) IN
         [fs EXCEPT ![Destination] = ShelveWrite(fs[Destination], result)]

\* the store a save finds, by content, and the keys its loop writes
NoCheckpoint == [store |-> <<>>, written |-> {}]
Checkpoint ==
    [store |-> [k \in DOMAIN result |-> Pickled(result[k])],
     written |-> DOMAIN Dump(<<>>, keys, result).db]

\* mutant: save writes whatever saveresult is
Saving_always == TRUE

\* line 949: if self.saveresult
Saving == saveresult

\* the exception the loop of lines 971-979 lets through, or "none"
SaveOutcome ==
    LET e == SaveRaises(Rotate(Fs, Destination)[Destination], result) IN
    IF e = "none" THEN "returned" ELSE e

\* what a call counts against MaxRequests: its names, and 1 when it has none
Cost(names) == IF names = <<>> THEN 1 ELSE Len(names)

(***************************************************************************)
(* Experiment.run, lines 847-858: the request is expanded and validated.   *)
(***************************************************************************)
RunCall(arg, stopOnException, force, nosave) ==
    /\ pc = "idle"
    /\ requested + Cost(ExpandRequest(arg)) <= MaxRequests
    /\ requested' = requested + Cost(ExpandRequest(arg))
    /\ start' = Snapshot
    /\ req' = ExpandRequest(arg)
    /\ opts' = [stop |-> stopOnException, force |-> force, nosave |-> nosave,
                all |-> (arg.kind = "str" /\ arg.s = All)]
    /\ IF AllResolve(ExpandRequest(arg))
       THEN /\ pc' = IF ExpandRequest(arg) = <<>> THEN "save" ELSE "loop"
            /\ outcome' = "none"
       ELSE /\ pc' = "done"
            /\ outcome' = "ValueError"
    /\ idx' = 1
    /\ retval' = <<>>
    /\ UNCHANGED <<phases, saveresult, run_counter, asked, result, file, fileOld,
                   stack, dflt, order, events, saves>>
    /\ UNCHANGED others

(***************************************************************************)
(* Lines 859-892 and 909-925: one iteration of the for loop up to the call *)
(* of run_a_phase, or to its end when the phase is not run.                *)
(***************************************************************************)
LoopStep ==
    /\ pc = "loop"
    /\ LET P == _find_phase(req[idx])
           n == NeedsRun(phases[P], opts.force)
           a == IF n \in {"true", "false"} THEN Allowed(phases[P]) ELSE "unevaluated"
       IN
       IF P = NoPhase
       THEN \* line 864: P is None, AttributeError outside the try
            /\ pc' = "done"
            /\ outcome' = "AttributeError"
            /\ UNCHANGED <<idx, stack, dflt, events>>
       ELSE IF n \notin {"true", "false"} \/ a \notin {"true", "false"}
       THEN \* a predicate raised what its except clauses do not catch: line 913
            /\ events' = Append(events, [ph |-> P, what |-> "error"])
            /\ pc' = NextPc(Halts(opts.stop))
            /\ idx' = NextIdx(Halts(opts.stop))
            /\ UNCHANGED <<stack, dflt, outcome>>
       ELSE IF ShouldRun(n, a)
       THEN \* lines 894 and 907: run_a_phase is defined and called
            /\ events' = Append(events, [ph |-> P, what |-> "running"])
            /\ stack' = <<[ph |-> P, rv |-> "R", stage |-> "call"]>>
            /\ dflt' = <<>>
            /\ pc' = "run"
            /\ UNCHANGED <<idx, outcome>>
       ELSE \* lines 909-912
            /\ events' = Append(events,
                    [ph |-> P, what |-> IF a = "false" THEN "forbidden" ELSE "skipped"])
            /\ pc' = NextPc(FALSE)
            /\ idx' = NextIdx(FALSE)
            /\ UNCHANGED <<stack, dflt, outcome>>
    /\ UNCHANGED <<phases, saveresult, run_counter, asked, result, file, fileOld,
                   req, opts, retval, requested, start, order, saves>>
    /\ UNCHANGED others

(***************************************************************************)
(* Line 896: the innermost run_a_phase calls the_phase(...).               *)
(***************************************************************************)
Top == stack[Len(stack)]

\* an exception leaves every run_a_phase frame and reaches line 913
RaiseToLoop ==
    /\ stack' = <<>>
    /\ events' = SetLast(events, "failed")
    /\ pc' = NextPc(Halts(opts.stop))
    /\ idx' = NextIdx(Halts(opts.stop))

\* mutant: line 913 catches only the exceptions the phases raise themselves
Catches_own(exc) == exc = "Exception"

\* line 913: except BaseException catches whatever leaves the try of line 869
Catches(exc) == TRUE

\* the exception exc leaves the_phase(...) or run_a_phase(...) in the top frame
Raise(exc) ==
    IF Catches(exc)
    THEN RaiseToLoop /\ UNCHANGED outcome
    ELSE /\ stack' = <<>>
         /\ pc' = "done"
         /\ outcome' = exc
         /\ UNCHANGED <<events, idx>>

\* mutant: the recursion of run_a_phase is cut off one frame early
Overflows_early(s) == Len(s) + 1 >= MaxDepth

\* line 901 in a frame that is as deep as the interpreter lets calls nest (the
\* recursion limit of sys, MaxDepth frames here): the call raises RuntimeError
Overflows(s) == Len(s) >= MaxDepth

Invoke ==
    /\ pc = "run"
    /\ Top.stage = "call"
    /\ LET i == Top.ph IN
       IF i = NoPhase
       THEN \* None is not callable: TypeError
            /\ Raise("TypeError")
            /\ UNCHANGED <<run_counter, asked, result, keys, retval, dflt, order>>
       ELSE IF DepFires(i)
       THEN \* lines 897-901
            /\ order' = Append(order, [ph |-> i, how |-> "dep"])
            /\ run_counter' = [run_counter EXCEPT ![i] = CounterOnRaise(i)]
            /\ asked' = asked \cup {i}
            /\ IF Overflows(stack)
               THEN \* RuntimeError: maximum recursion depth exceeded
                    Raise("RuntimeError")
               ELSE /\ stack' = Append([stack EXCEPT ![Len(stack)].stage = "dep"],
                                       [ph |-> _find_phase(phases[i].on), rv |-> "D",
                                        stage |-> "call"])
                    /\ UNCHANGED <<events, pc, idx, outcome>>
            /\ UNCHANGED <<result, keys, retval, dflt>>
       ELSE IF phases[i].fails
       THEN /\ order' = Append(order, [ph |-> i, how |-> "raised"])
            /\ run_counter' = [run_counter EXCEPT ![i] = CounterOnRaise(i)]
            /\ Raise("Exception")
            /\ UNCHANGED <<asked, result, keys, retval, dflt>>
       ELSE /\ order' = Append(order, [ph |-> i, how |-> "returned"])
            /\ run_counter' = [run_counter EXCEPT ![i] = run_counter[i] + 1]
            /\ result' = ResultAfter(i)
            /\ keys' = KeysAfter(ResultAfter(i))
            /\ retval' = IF Top.rv = "R" THEN Append(retval, Returned(i)) ELSE retval
            /\ dflt' = IF Top.rv = "D" THEN Append(dflt, Returned(i)) ELSE dflt
            /\ stack' = [stack EXCEPT ![Len(stack)].stage = "returned"]
            /\ UNCHANGED <<asked, events, pc, idx, outcome>>
    /\ UNCHANGED <<phases, saveresult, file, fileOld, req, opts, requested, start, saves>>
    /\ UNCHANGED <<reply, sought, found, built, unroller, files, heap, kept>>

(***************************************************************************)
(* A run_a_phase frame returns to its caller: to line 907 (the loop), or   *)
(* into the except clause of the frame below, after line 901 or line 906.  *)
(***************************************************************************)
ReturnFrame ==
    /\ pc = "run"
    /\ Top.stage = "returned"
    /\ IF Len(stack) = 1
       THEN /\ stack' = <<>>
            /\ events' = SetLast(events, "completed")
            /\ pc' = NextPc(FALSE)
            /\ idx' = NextIdx(FALSE)
            /\ UNCHANGED <<retval, dflt>>
       ELSE LET parent == stack[Len(stack) - 1]
                below  == SubSeq(stack, 1, Len(stack) - 2)
            IN
            IF Retries(parent.stage)
            THEN \* line 906, the call
                 /\ stack' = below \o <<[parent EXCEPT !.stage = "retry"],
                                        [ph |-> parent.ph, rv |-> "D", stage |-> "call"]>>
                 /\ UNCHANGED <<retval, dflt, events, pc, idx>>
            ELSE \* line 906, the append of what run_a_phase returned: None
                 /\ stack' = below \o <<[parent EXCEPT !.stage = "returned"]>>
                 /\ retval' = IF parent.rv = "R" THEN Append(retval, None) ELSE retval
                 /\ dflt' = IF parent.rv = "D" THEN Append(dflt, None) ELSE dflt
                 /\ UNCHANGED <<events, pc, idx>>
    /\ UNCHANGED <<phases, saveresult, run_counter, asked, result, file, fileOld,
                   req, opts, outcome, requested, start, order, saves>>
    /\ UNCHANGED others

(***************************************************************************)
(* Lines 926-942: the checkpoint after the loop, and Experiment.save.      *)
(***************************************************************************)
Save ==
    /\ pc = "save"
    /\ IF SaveWanted(opts.nosave)
       THEN /\ saves' = saves + 1
            /\ IF Saving
               THEN /\ RESULT_FILE' = PathOf(Destination)
                    /\ fileOld' = Saved[Destination \o OldExt]
                    /\ file' = Saved[Destination]
                    /\ elsewhere' = Saved
                    /\ checkpoint' = Checkpoint
                    /\ outcome' = SaveOutcome
               ELSE /\ RESULT_FILE' = NoPath
                    /\ outcome' = "returned"
                    /\ UNCHANGED <<file, fileOld, elsewhere, checkpoint>>
       ELSE /\ outcome' = "returned"
            /\ UNCHANGED <<saves, file, fileOld, elsewhere, RESULT_FILE, checkpoint>>
    /\ pc' = "done"
    /\ UNCHANGED <<phases, saveresult, run_counter, asked, result, req, opts, idx,
                   stack, retval, dflt, requested, start, order, events>>
    /\ UNCHANGED <<reply, sought, found, built, unroller, objects, resultfile, reusefile,
                   pickler, setup, made>>

(***************************************************************************)
(* The caller has the list run returned, or the exception it raised.       *)
(***************************************************************************)
Return ==
    /\ pc = "done"
    /\ pc' = "idle"
    /\ req' = <<>>
    /\ opts' = NoOpts
    /\ idx' = 1
    /\ stack' = <<>>
    /\ retval' = <<>>
    /\ dflt' = <<>>
    /\ outcome' = "none"
    /\ order' = <<>>
    /\ events' = <<>>
    /\ saves' = 0
    /\ start' = Snapshot
    /\ UNCHANGED <<phases, saveresult, run_counter, asked, result, file, fileOld, requested>>
    /\ UNCHANGED others

(***************************************************************************)
(* Unroller (src/loop_unroller.py).  loops is a sequence of records        *)
(* [var, vals]; a generator of _unroll is a record:                        *)
(*   pc         "new" (body not entered), "yielded" (suspended at a yield) *)
(*              or "ended" (StopIteration has left the body)               *)
(*   loop_iter  per loop, the number of values its iterator has handed out *)
(*   loop_vals  per loop, the current value                                *)
(*   cur, last  the indices of lines 79 and 86 (from 0, as in the code)    *)
(*   out        the Configs yielded so far                                 *)
(***************************************************************************)
MaxDims       == 3   \* loops of an Unroller
MaxTraversals == 2   \* generators taken from one Unroller

\* mutant: total is the length of the first loop only
Total_first(ls) == IF ls = <<>> THEN 1 ELSE Len(ls[1].vals)

\* mutant: an Unroller of no loops has total 0
RECURSIVE Total_none(_)
Total_none(ls) ==
    IF ls = <<>> THEN 0
    ELSE IF Len(ls) = 1 THEN Len(ls[1].vals)
    ELSE Len(ls[Len(ls)].vals) * Total_none(SubSeq(ls, 1, Len(ls) - 1))

\* Unroller.__init__, lines 56-58: the product of the lengths
RECURSIVE Total(_)
Total(ls) == IF ls = <<>> THEN 1 ELSE Len(ls[Len(ls)].vals) * Total(SubSeq(ls, 1, Len(ls) - 1))

\* Unroller.__len__
__len__ == total

loop_vars == [k \in 1..Len(loops) |-> loops[k].var]

\* zip() of two lists
Zip(a, b) ==
    [k \in 1..(IF Len(a) < Len(b) THEN Len(a) ELSE Len(b)) |-> <<a[k], b[k]>>]

\* Config(pairs): an ordered mapping, a later pair replaces an earlier one of
\* the same key at the earlier one's place
RECURSIVE Config(_)
Config(pairs) ==
    IF pairs = <<>> THEN <<>>
    ELSE LET init == Config(SubSeq(pairs, 1, Len(pairs) - 1))
             kv   == pairs[Len(pairs)]
         IN IF \E k \in 1..Len(init) : init[k][1] = kv[1]
            THEN [k \in 1..Len(init) |-> IF init[k][1] = kv[1] THEN kv ELSE init[k]]
            ELSE Append(init, kv)

\* a generator whose body has not been entered
NewGenerator ==
    [pc |-> "new", loop_iter |-> <<>>, loop_vals |-> <<>>, cur |-> -1, last |-> -1,
     out |-> <<>>]

\* mutant: the generator goes on at the cursors of the generator before it
Generator_shared(ts) ==
    IF ts = <<>> THEN NewGenerator ELSE [ts[Len(ts)] EXCEPT !.out = <<>>]

\* Unroller.__iter__: self._unroll(), a generator of its own
Generator(ts) == NewGenerator

\* loop_iter[c].next() would not raise StopIteration
HasNext(g, c) == g.loop_iter[c + 1] < Len(loops[c + 1].vals)

\* loop_vals[c] = loop_iter[c].next()
TakeNext(g, c) ==
    [g EXCEPT !.loop_iter[c + 1] = @ + 1,
              !.loop_vals[c + 1] = loops[c + 1].vals[g.loop_iter[c + 1] + 1]]

\* mutant: an exhausted loop is not started again
Reset_keep(g, c) == g

\* lines 94-95 and 113-114: a new iterator for loop c, and its first value
Reset(g, c) ==
    [g EXCEPT !.loop_iter[c + 1] = 1, !.loop_vals[c + 1] = loops[c + 1].vals[1]]

\* mutant: with a loop of no values an empty Config is yielded
Enter_yieldsEmpty(g) ==
    IF \E k \in 1..Len(loops) : loops[k].vals = <<>>
    THEN [g EXCEPT !.pc = "yielded", !.out = << <<>> >>]
    ELSE LET firsts == [k \in 1..Len(loops) |-> loops[k].vals[1]] IN
         [pc |-> "yielded",
          loop_iter |-> [k \in 1..Len(loops) |-> 1],
          loop_vals |-> firsts,
          cur |-> Len(loops) - 1,
          last |-> Len(loops) - 1,
          out |-> << Config(Zip(loop_vars, firsts)) >>]

\* lines 71-86: up to the first yield; next() on an empty loop raises
\* StopIteration, which ends the generator
Enter(g) ==
    IF \E k \in 1..Len(loops) : loops[k].vals = <<>>
    THEN [g EXCEPT !.pc = "ended"]
    ELSE LET firsts == [k \in 1..Len(loops) |-> loops[k].vals[1]] IN
         [pc |-> "yielded",
          loop_iter |-> [k \in 1..Len(loops) |-> 1],
          loop_vals |-> firsts,
          cur |-> Len(loops) - 1,
          last |-> Len(loops) - 1,
          out |-> << Config(Zip(loop_vars, firsts)) >>]

\* lines 96-115: the inner while loop, entered with loop g.cur just reset
RECURSIVE Carry(_)
Carry(g) ==
    LET c == g.cur - 1 IN
    IF c < 0 THEN [g EXCEPT !.cur = c, !.pc = "ended"]
    ELSE IF HasNext(g, c) THEN [TakeNext(g, c) EXCEPT !.cur = g.last]
    ELSE Carry([Reset(g, c) EXCEPT !.cur = c])

\* lines 87-119: from a yield to the next one, or to the end
Advance(g) ==
    IF g.cur < 0 THEN [g EXCEPT !.pc = "ended"]
    ELSE LET h == IF HasNext(g, g.cur) THEN TakeNext(g, g.cur)
                  ELSE Carry(Reset(g, g.cur))
         IN IF h.pc = "ended" THEN h
            ELSE [h EXCEPT !.out = Append(@, Config(Zip(loop_vars, h.loop_vals)))]

\* Unroller._unroll: what one next() of the generator does
_unroll(g) == IF g.pc = "new" THEN Enter(g) ELSE Advance(g)

\* iter(unroller)
__iter__ ==
    /\ pc = "idle"
    /\ Len(traversals) < MaxTraversals
    /\ traversals' = Append(traversals, Generator(traversals))
    /\ UNCHANGED <<reply, loops, total, sought, found, built, files, objects>>
    /\ UNCHANGED <<phases, saveresult, run_counter, asked, result, file, fileOld, pc,
                   req, opts, idx, stack, retval, dflt, outcome, requested, start,
                   order, events, saves>>

\* next() of generator t that has not ended
NextItem(t) ==
    /\ pc = "idle"
    /\ traversals[t].pc # "ended"
    /\ traversals' = [traversals EXCEPT ![t] = _unroll(traversals[t])]
    /\ UNCHANGED <<reply, loops, total, sought, found, built, files, objects>>
    /\ UNCHANGED <<phases, saveresult, run_counter, asked, result, file, fileOld, pc,
                   req, opts, idx, stack, retval, dflt, outcome, requested, start,
                   order, events, saves>>

(***************************************************************************)
(* The experiments checked: two registered phases.  The first is a         *)
(* subclass with its own needsrun and is_allowed_to_run that writes a key  *)
(* of its own (TestPhase1); the second fails (PhaseThatFails), asks for    *)
(* the first phase to be run first, or returns a value.                    *)
(***************************************************************************)
NameA == <<"A">>
NameB == <<"b">>

FirstPhases ==
    { Ph(NameA, "late", n, a, FALSE, "spam", "never", <<>>) :
        n \in {"true", "false", "ifmissing"}, a \in {"true", "false"} }

SecondPhases ==
    { Ph(NameB, "early", "true", "true", TRUE, "eggs", "never", <<>>),
      Ph(NameB, "wrap", "true", "true", FALSE, "eggs", "first", <<"a">>),
      Ph(NameB, "wrap", "true", "true", FALSE, "eggs", "never", <<>>) }

Registrations == { <<p1, p2>> : p1 \in FirstPhases, p2 \in SecondPhases }

\* the names a caller passes to run; "x" names no phase
RequestNames == { <<"a">>, <<"b">>, <<"x">> }

RECURSIVE ListsUpTo(_, _)
ListsUpTo(S, n) ==
    IF n = 0 THEN { <<>> }
    ELSE ListsUpTo(S, n - 1) \cup
         { Append(l, x) : l \in { m \in ListsUpTo(S, n - 1) : Len(m) = n - 1 }, x \in S }

Args ==
    { [kind |-> "str", s |-> All], [kind |-> "str", s |-> <<"b">>] } \cup
    { [kind |-> "list", l |-> l] : l \in ListsUpTo(RequestNames, MaxRequests) }

InitOn(regs, saving, sweeps, picklers) ==
    /\ phases \in regs
    /\ saveresult \in saving
    /\ run_counter = [i \in PhaseIds |-> 0]
    /\ asked = {}
    /\ result = [k \in {ConfigKey} |-> "config"]
    /\ file = NoFile
    /\ fileOld = NoFile
    /\ pc = "idle"
    /\ req = <<>>
    /\ opts = NoOpts
    /\ idx = 1
    /\ stack = <<>>
    /\ retval = <<>>
    /\ dflt = <<>>
    /\ outcome = "none"
    /\ requested = 0
    /\ start = Snapshot
    /\ order = <<>>
    /\ events = <<>>
    /\ saves = 0
    /\ sought = <<>>
    /\ found = NoPhase
    /\ built = NotBuilt
    /\ loops \in sweeps
    /\ total = Total(loops)
    /\ traversals = <<>>
    /\ resultfile = <<>>
    /\ reusefile = <<>>
    /\ RESULT_FILE = Unset
    /\ elsewhere = [p \in Paths |-> NoFile]
    /\ pickler \in picklers
    /\ setup = "ok"
    /\ made = 1
    /\ checkpoint = NoCheckpoint
    /\ keys = <<ConfigKey>>
    /\ heap = [o \in Objects |-> Free]
    /\ kept = <<>>
    /\ reply = NoReply

\* a CPython 2 build, where shelve finds cPickle
InitWith(regs, saving) == InitOn(regs, saving, { <<>> }, {"cPickle"})

Init == InitWith(Registrations, {TRUE})

\* a subclass registered twice, as an instance and as its class (setUp, lines
\* 1330-1331: p1 = TestPhase1(), p2 = TestPhase1): two phases of one name
SameNameRegistrations == { <<p1, p2>> : p1 \in FirstPhases, p2 \in FirstPhases }

\* three registered phases [A, b, C]: b is a wrapped function that asks for
\* "a" on its first attempt only, C is a subclass that always runs
NameC == <<"C">>

ThreeRegistrations ==
    { <<p1, Ph(NameB, "wrap", "true", "true", FALSE, "eggs", "first", <<"a">>),
        Ph(NameC, "late", "true", "true", FALSE, "ham", "never", <<>>)>> :
        p1 \in FirstPhases }

\* a first phase whose predicates raise: KeyError (a missing key probed by
\* result['k']), AttributeError (probed by result.k, Config.__getattr__),
\* AssertionError, or ValueError for any other exception
RaisingPhases ==
    { Ph(NameA, "late", n, a, FALSE, "spam", "never", <<>>) :
        n \in {"true", "KeyError", "AttributeError", "AssertionError", "ValueError"},
        a \in {"true", "false", "KeyError", "AttributeError"} }

RaisingRegistrations ==
    { <<p1, p2>> : p1 \in RaisingPhases,
                   p2 \in { q \in SecondPhases : q.dep = "never" } }

Next ==
    \/ \E arg \in Args, s \in BOOLEAN, f \in BOOLEAN, n \in BOOLEAN : RunCall(arg, s, f, n)
    \/ LoopStep
    \/ Invoke
    \/ ReturnFrame
    \/ Save
    \/ Return

Spec == Init /\ [][Next]_vars

SpecSameName == InitWith(SameNameRegistrations, {TRUE}) /\ [][Next]_vars

SpecThree == InitWith(ThreeRegistrations, {TRUE}) /\ [][Next]_vars

SpecRaising == InitWith(RaisingRegistrations, {TRUE}) /\ [][Next]_vars

\* phases that ask for another phase at every attempt: A asks for b or never
\* asks, b asks for itself or for A
CycleRegistrations ==
    { <<p1, p2>> :
        p1 \in { Ph(NameA, "wrap", "true", "true", FALSE, "spam", "always", <<"b">>),
                 Ph(NameA, "late", "true", "true", FALSE, "spam", "never", <<>>) },
        p2 \in { Ph(NameB, "wrap", "true", "true", FALSE, "eggs", "always", <<"b">>),
                 Ph(NameB, "early", "true", "true", FALSE, "eggs", "always", <<"a">>) } }

\* b asks once for A, which fails or runs well, or for "x", which names no
\* registered phase
BrokenRegistrations ==
    { <<p1, p2>> :
        p1 \in { Ph(NameA, "early", "true", "true", TRUE, "spam", "never", <<>>),
                 Ph(NameA, "wrap", "true", "true", TRUE, "spam", "never", <<>>),
                 Ph(NameA, "late", "true", "true", FALSE, "spam", "never", <<>>) },
        p2 \in { Ph(NameB, "wrap", "true", "true", FALSE, "eggs", "first", <<"a">>),
                 Ph(NameB, "wrap", "true", "true", FALSE, "eggs", "first", <<"x">>) } }

\* A runs while its key is missing; b fails, asks for A once, or returns
LiveRegistrations ==
    { r \in Registrations : r[1].needs = "ifmissing" /\ r[1].allowed = "true" }

SpecCycle == InitWith(CycleRegistrations, {TRUE}) /\ [][Next]_vars

SpecBroken == InitWith(BrokenRegistrations, {TRUE}) /\ [][Next]_vars

\* Experiment.run is sequential code: once called, each of its steps is taken;
\* the caller is free to call again or not
SpecLive ==
    /\ InitWith(LiveRegistrations, {TRUE})
    /\ [][Next]_vars
    /\ WF_vars(LoopStep)
    /\ WF_vars(Invoke)
    /\ WF_vars(ReturnFrame)
    /\ WF_vars(Save)

(***************************************************************************)
(* Experiment._find_phase called by itself, on experiments whose phases    *)
(* are named A, b or aB, with names in either letter case, padded with     *)
(* blanks and with the suffix "-phase".                                    *)
(***************************************************************************)
MaxPad == 1   \* blanks at either side of a requested name

Find(phase) ==
    /\ pc = "idle"
    /\ sought' = phase
    /\ found' = _find_phase(phase)
    /\ UNCHANGED <<reply, built, unroller, files, objects>>
    /\ UNCHANGED <<phases, saveresult, run_counter, asked, result, file, fileOld, pc,
                   req, opts, idx, stack, retval, dflt, outcome, requested, start,
                   order, events, saves>>

Plain(name) == Ph(name, "wrap", "true", "true", FALSE, None, "never", <<>>)

FindNames == { <<"A">>, <<"b">>, <<"a", "B">> }

FindRegistrations == { <<Plain(n1), Plain(n2)>> : n1 \in FindNames, n2 \in FindNames }

Spellings == { <<"a">>, <<"A">>, <<"b">>, <<"B">>, <<"x">>,
               <<"a", "b">>, <<"A", "b">>, <<"a", "B">>, <<"A", "B">> }

Blanks(n) == [k \in 1..n |-> " "]

FindRequests ==
    { Blanks(l) \o c \o suf \o Blanks(r) :
        l \in 0..MaxPad, r \in 0..MaxPad, c \in Spellings, suf \in {<<>>, PhaseSuffix} }

NextFind == \E phase \in FindRequests : Find(phase)

SpecFind == InitWith(FindRegistrations, {TRUE}) /\ [][NextFind]_vars

(***************************************************************************)
(* Phase.__init__ (phase.py 49-61), for a subclass named typename or for   *)
(* Phase itself around a function named wrap_function.                     *)
(***************************************************************************)
MaxNameLen == 3   \* letters of a class or function name

NoFunction == <<>>   \* wrap_function=None

\* Phase.name: the wrapped function's name, else the name of the class
PhaseName(typename, wrap_function) ==
    IF wrap_function # NoFunction THEN wrap_function ELSE typename

\* line 60: the spellings of "all" that are refused
RefusedNames == { <<"a", "l", "l">>, <<"A", "l", "l">>, <<"A", "L", "L">> }

Construct(typename, wrap_function) ==
    /\ pc = "idle"
    /\ built' = [name |-> PhaseName(typename, wrap_function),
                 has_wrap_function |-> wrap_function # NoFunction,
                 run_counter |-> 0,
                 error |-> IF PhaseName(typename, wrap_function) \in RefusedNames
                           THEN "ValueError" ELSE "none"]
    /\ UNCHANGED <<reply, sought, found, unroller, files, objects>>
    /\ UNCHANGED <<phases, saveresult, run_counter, asked, result, file, fileOld, pc,
                   req, opts, idx, stack, retval, dflt, outcome, requested, start,
                   order, events, saves>>

\* class and function names: the words over a, A, l, L
BuildNames == ListsUpTo({"a", "A", "l", "L"}, MaxNameLen) \ { <<>> }

NextBuild ==
    \E typename \in BuildNames, wrap_function \in {NoFunction, All, <<"a", "L", "l">>} :
        Construct(typename, wrap_function)

SpecBuild == Init /\ [][NextBuild]_vars

(***************************************************************************)
(* The Unrollers checked: up to MaxDims loops named i, j, k, ... whose     *)
(* values are no, one or two different values, or one value twice.         *)
(***************************************************************************)
LoopNames == <<"i", "j", "k", "l", "m">>

LoopValues == { <<>>, <<0>>, <<0, 1>>, <<1, 1>> }

Sweeps ==
    { [k \in 1..Len(vs) |-> [var |-> LoopNames[k], vals |-> vs[k]]] :
        vs \in ListsUpTo(LoopValues, MaxDims) }

NextUnroll ==
    \/ __iter__
    \/ \E t \in 1..Len(traversals) : NextItem(t)

SpecUnroll == InitOn({ << Plain(NameA), Plain(NameB) >> }, {TRUE}, Sweeps, {"cPickle"}) /\ [][NextUnroll]_vars

(***************************************************************************)
(* Properties.                                                             *)
(***************************************************************************)

\* C1: when the run of a phase P raises DependsOnAnotherPhase naming a
\* registered phase Q, the next run invoked is Q's and, once Q's run has
\* returned, the next run invoked is P's again; the iteration of the loop
\* does not end before both have happened.  This does not depend on Q being
\* in the request list.
C1_DependencyThenRetry ==
    \A k \in 1..Len(order) :
        LET Q == _find_phase(phases[order[k].ph].on) IN
        (order[k].how = "dep" /\ Q # NoPhase) =>
            /\ k < Len(order) => order[k + 1].ph = Q
            /\ (k + 1 < Len(order) /\ order[k + 1].how = "returned")
                    => order[k + 2].ph = order[k].ph
            /\ stack = <<>> =>
                    /\ k < Len(order)
                    /\ order[k + 1].how = "returned" => k + 1 < Len(order)

\* C1 witness: only "b" was requested; b asked for a, a ran, b ran again
C1_Witness ==
    /\ pc = "done"
    /\ req = << <<"b">> >>
    /\ order = << [ph |-> 2, how |-> "dep"], [ph |-> 1, how |-> "returned"],
                  [ph |-> 2, how |-> "returned"] >>

\* C2: while the request list of a call holds a name that resolves to no
\* registered phase, the call has raised ValueError and nothing has happened:
\* no run was invoked, no run counter, result or file changed, nothing saved.
C2_UnresolvedNameFailsFast ==
    (\E k \in 1..Len(req) : _find_phase(req[k]) = NoPhase) =>
        /\ pc = "done"
        /\ outcome = "ValueError"
        /\ Snapshot = start
        /\ order = <<>>
        /\ events = <<>>
        /\ saves = 0

\* C2 witness: the unresolved name is the last of the list, after a good one
C2_Witness ==
    /\ pc = "done"
    /\ outcome = "ValueError"
    /\ Len(req) = 2
    /\ _find_phase(req[1]) # NoPhase
    /\ _find_phase(req[2]) = NoPhase

\* C3: a call with force=false that requests a phase whose needsrun returns
\* false has, when it returns, neither invoked that phase's run nor changed
\* its run counter.
C3_NotNeededPhaseUntouched ==
    (pc = "done" /\ outcome = "returned" /\ ~opts.force) =>
        \A k \in 1..Len(req) :
            LET P == _find_phase(req[k]) IN
            phases[P].needs = "false" =>
                /\ run_counter[P] = start.rc[P]
                /\ \A j \in 1..Len(order) : order[j].ph # P

\* C4: the run of a requested phase whose is_allowed_to_run returns false is
\* never invoked by the call, whatever needsrun returns and whatever force is.
C4_ForbiddenPhaseNeverRuns ==
    \A k \in 1..Len(req) :
        LET P == _find_phase(req[k]) IN
        (P # NoPhase /\ phases[P].allowed = "false") =>
            \A j \in 1..Len(order) : order[j].ph # P

C6_EachRequestRunsOnce ==
    (pc = "done" /\ outcome = "returned" /\ \A i \in PhaseIds : phases[i].dep = "never") =>
        \A P \in PhaseIds :
            (phases[P].needs = "true" /\ phases[P].allowed = "true") =>
                Cardinality({j \in 1..Len(order) : order[j].ph = P})
                    = Cardinality({k \in 1..Len(req) : _find_phase(req[k]) = P})

\* C6 amended: ... exactly as often as the loop reaches an occurrence of the
\* phase in the request list; with stopOnException=false the loop reaches
\* every occurrence, with stopOnException=true none after a failure.
C6_EachReachedRequestRunsOnce ==
    (pc = "done" /\ outcome = "returned" /\ \A i \in PhaseIds : phases[i].dep = "never") =>
        /\ \A P \in PhaseIds :
                (phases[P].needs = "true" /\ phases[P].allowed = "true") =>
                    Cardinality({j \in 1..Len(order) : order[j].ph = P})
                        = Cardinality({k \in 1..Len(events) : events[k].ph = P})
        /\ \A k \in 1..Len(events) : events[k].ph = _find_phase(req[k])
        /\ ~opts.stop => Len(events) = Len(req)
        /\ (\A k \in 1..Len(events) : events[k].what \notin {"failed", "error"})
                => Len(events) = Len(req)

\* C6 witness: a phase whose run always raises was requested twice in one
\* call and its run was invoked twice
C6_Witness ==
    /\ pc = "done"
    /\ Len(req) = 2
    /\ order = << [ph |-> 2, how |-> "raised"], [ph |-> 2, how |-> "raised"] >>

\* C7: an exception raised by the run of a requested phase never leaves
\* Experiment.run; with stopOnException=true the failed iteration is the last
\* one of the call, with stopOnException=false the loop reaches every name of
\* the request list.
C7_FailureHandling ==
    \A k \in 1..Len(events) :
        events[k].what = "failed" =>
            /\ outcome \in {"none", "returned"}
            /\ opts.stop => (k = Len(events) /\ pc \in {"save", "done"})
            /\ (~opts.stop /\ pc \in {"save", "done"}) => Len(events) = Len(req)

\* C7 witness: the first requested phase failed, the second one completed
C7_Witness ==
    /\ pc = "done"
    /\ ~opts.stop
    /\ Len(events) = 2
    /\ events[1].what = "failed"
    /\ events[2].what = "completed"

C9_PersistedAfterEveryPhase ==
    (pc = "run" /\ Len(events) >= 2 /\ Len(stack) = 1 /\ Top.stage = "call") =>
        \A key \in DOMAIN result \ DOMAIN start.res :
            /\ file.exists
            /\ key \in DOMAIN file.db
            /\ file.db[key] = result[key]

\* C10: after run('all') has returned, with every registered phase needed,
\* allowed, not failing and not asking for another phase, each registered
\* phase has been run exactly once, in registration order.
C10_AllRunsEveryPhaseOnce ==
    (/\ pc = "done"
     /\ outcome = "returned"
     /\ opts.all
     /\ \A i \in PhaseIds :
            /\ phases[i].needs = "true"
            /\ phases[i].allowed = "true"
            /\ ~phases[i].fails
            /\ phases[i].dep = "never") =>
        order = [k \in PhaseIds |-> [ph |-> k, how |-> "returned"]]

\* C11: within a call, every invocation of a phase's run is either the run of
\* the phase named at the position of the loop in the request list, started
\* once per position, or the run of the prerequisite named by the dependency
\* request raised just before, or the retry of the requesting phase right
\* after the prerequisite's run has returned; the loop moves on by one
\* position only, and only when no run of the position is active any more.
C11_RunsFollowRequestOrder ==
    [][ /\ (pc = "run" /\ Len(order') = Len(order) + 1) =>
            LET i == order'[Len(order')].ph IN
            IF Len(stack) = 1
            THEN /\ Matches(phases[i], req[idx])
                 /\ Len(events) = idx
                 /\ events[idx].what = "running"
                 /\ stack[1].stage = "call"
            ELSE LET parent == stack[Len(stack) - 1] IN
                 \/ /\ parent.stage = "dep"
                    /\ Matches(phases[i], phases[parent.ph].on)
                    /\ order[Len(order)] = [ph |-> parent.ph, how |-> "dep"]
                 \/ /\ parent.stage = "retry"
                    /\ i = parent.ph
                    /\ order[Len(order)].how = "returned"
                    /\ Matches(phases[order[Len(order)].ph], phases[i].on)
        /\ (pc \in {"loop", "run"} /\ idx' # idx) =>
            (idx' = idx + 1 /\ stack' = <<>> /\ pc' = "loop")
      ]_vars

\* C11 witness: ['b', 'a'] was requested; b asked for a, a ran as the
\* prerequisite, b was retried, and only then a ran as the second request
C11_Witness ==
    /\ pc = "done"
    /\ req = << <<"b">>, <<"a">> >>
    /\ order = << [ph |-> 2, how |-> "dep"], [ph |-> 1, how |-> "returned"],
                  [ph |-> 2, how |-> "returned"], [ph |-> 1, how |-> "returned"] >>

\* C12: for every registered phase, named N: a request that is N in some
\* letter case, with or without "-phase" at its end, padded with any blanks,
\* resolves to the first registered phase whose name is N up to letter case,
\* the phase the request N itself resolves to; a request that is no such
\* spelling of any registered name resolves to nothing.
C12_NameResolution ==
    LET SameLetters(c, N) ==
            /\ Len(c) = Len(N)
            /\ \A k \in 1..Len(N) : c[k] = N[k] \/ <<c[k], N[k]>> \in
                    { <<"a", "A">>, <<"A", "a">>, <<"b", "B">>, <<"B", "b">> }
        SpellingOf(s, N) ==
            \E l \in 0..Len(s), r \in 0..Len(s), suf \in {<<>>, PhaseSuffix} :
                /\ l + r + Len(N) + Len(suf) = Len(s)
                /\ SubSeq(s, 1, l) = Blanks(l)
                /\ SubSeq(s, Len(s) - r + 1, Len(s)) = Blanks(r)
                /\ SameLetters(SubSeq(s, l + 1, l + Len(N)), N)
                /\ SubSeq(s, l + Len(N) + 1, Len(s) - r) = suf
        FirstNamed(N) ==
            CHOOSE k \in PhaseIds :
                /\ SameLetters(phases[k].name, N)
                /\ \A j \in 1..(k - 1) : ~SameLetters(phases[j].name, N)
    IN
    sought # <<>> =>
        /\ \A k \in PhaseIds :
                SpellingOf(sought, phases[k].name) =>
                    /\ found = FirstNamed(phases[k].name)
                    /\ found = _find_phase(phases[k].name)
        /\ (\A k \in PhaseIds : ~SpellingOf(sought, phases[k].name)) => found = NoPhase

\* C12 witness: the second registered phase is named aB; a request in another
\* letter case, padded at both sides and ending in "-phase" resolved to it
C12_Witness ==
    /\ phases[1].name = <<"A">>
    /\ phases[2].name = <<"a", "B">>
    /\ sought = <<" ", "A", "b">> \o PhaseSuffix \o <<" ">>
    /\ found = 2

\* C13 as claimed: phases [A, b, C], none run before, b asking for A on its
\* first attempt only; after run('all') the runs of A and of b that returned
\* are A's and then b's, and the run counters of A and of b are both 1.
C13_AllWithDependency ==
    (/\ pc = "done"
     /\ outcome = "returned"
     /\ opts.all
     /\ Len(phases) = 3
     /\ phases[2].dep = "first"
     /\ \A i \in PhaseIds : start.rc[i] = 0) =>
        /\ SelectSeq(order, LAMBDA e : e.ph \in {1, 2} /\ e.how = "returned")
                = << [ph |-> 1, how |-> "returned"], [ph |-> 2, how |-> "returned"] >>
        /\ run_counter[1] = 1
        /\ run_counter[2] = 1

\* C13 amended: ... with needsrun and is_allowed_to_run of A returning true,
\* after run('all') A has run at its place in the list, b's first attempt
\* has asked for A, A has run again as the prerequisite, b's retry has
\* returned and then C has run: the run counter of A is 2, that of b (whose
\* attempt that raised is not counted by Phase.run) and that of C are 1.
C13_AllRunsPrerequisiteAgain ==
    (/\ pc = "done"
     /\ outcome = "returned"
     /\ opts.all
     /\ Len(phases) = 3
     /\ phases[2].dep = "first"
     /\ phases[1].needs = "true"
     /\ phases[1].allowed = "true"
     /\ \A i \in PhaseIds : start.rc[i] = 0) =>
        /\ order = << [ph |-> 1, how |-> "returned"], [ph |-> 2, how |-> "dep"],
                      [ph |-> 1, how |-> "returned"], [ph |-> 2, how |-> "returned"],
                      [ph |-> 3, how |-> "returned"] >>
        /\ run_counter = <<2, 1, 1>>

\* C13 witness: run('all') over [A, b, C] has returned after five invocations
C13_Witness ==
    /\ pc = "done"
    /\ opts.all
    /\ Len(phases) = 3
    /\ phases[1].needs = "true"
    /\ phases[1].allowed = "true"
    /\ Len(order) = 5
    /\ order[2].how = "dep"
    /\ run_counter[1] = 2

\* C14: the run invoked right after a dependency request, the prerequisite's,
\* is not the run of a phase whose needsrun returns false or whose
\* is_allowed_to_run returns false.
C14_PrerequisiteIsChecked ==
    \A k \in 2..Len(order) :
        order[k - 1].how = "dep" =>
            /\ phases[order[k].ph].needs # "false"
            /\ phases[order[k].ph].allowed # "false"

\* C15 as claimed: a request (force=false) of a phase whose needsrun raises,
\* whatever the exception, is handled as a needed phase: it goes to Running
\* when is_allowed_to_run returns true and is forbidden when it returns
\* false; it is never handled as an error of the iteration.
C15_NeedsrunErrorRecovered ==
    ~opts.force =>
        \A k \in 1..Len(events) :
            LET p == phases[events[k].ph] IN
            p.needs \notin {"true", "false", "ifmissing"} =>
                /\ p.allowed = "true" =>
                        events[k].what \in {"running", "completed", "failed"}
                /\ p.allowed = "false" => events[k].what = "forbidden"

\* C15 amended: this holds when needsrun raises KeyError, AttributeError or
\* AssertionError.  Any other exception reaches the handler of run failures:
\* it does not leave Experiment.run, the run of the phase is not invoked for
\* this request, and with stopOnException=true the iteration is the last
\* one of the call.
C15_NeedsrunErrorByType ==
    ~opts.force =>
        \A k \in 1..Len(events) :
            LET p == phases[events[k].ph] IN
            /\ (/\ p.needs \in {"KeyError", "AttributeError", "AssertionError"}
                /\ p.allowed \in {"true", "false"}) =>
                    /\ p.allowed = "true" =>
                            events[k].what \in {"running", "completed", "failed"}
                    /\ p.allowed = "false" => events[k].what = "forbidden"
                    /\ (events[k].what = "completed" /\ k = Len(events)) =>
                            order[Len(order)] = [ph |-> events[k].ph, how |-> "returned"]
            /\ p.needs = "ValueError" =>
                    /\ events[k].what = "error"
                    /\ outcome \in {"none", "returned"}
                    /\ Len(req) = 1 => order = <<>>
                    /\ opts.stop => (k = Len(events) /\ pc \in {"save", "done"})
                    /\ (~opts.stop /\ pc \in {"save", "done"}) => Len(events) = Len(req)

\* C15 witness: needsrun raised AssertionError and the phase was run; in
\* another request of the same call stopOnException did not halt the loop
C15_Witness ==
    /\ pc = "done"
    /\ opts.stop
    /\ ~opts.force
    /\ phases[1].needs = "AssertionError"
    /\ Len(events) = 2
    /\ events[1] = [ph |-> 1, what |-> "completed"]
    /\ order[1] = [ph |-> 1, how |-> "returned"]

\* C16: a request of a phase whose is_allowed_to_run raises, whatever the
\* exception, is handled as a forbidden phase: its run is not invoked, the
\* iteration is not handled as an error, and with stopOnException=true the
\* loop still reaches the rest of the request list.
C16_AllowedErrorRecovered ==
    \A k \in 1..Len(events) :
        LET p == phases[events[k].ph] IN
        (/\ p.allowed \notin {"true", "false"}
         /\ p.needs \in {"true", "KeyError", "AttributeError", "AssertionError"}) =>
            /\ events[k].what = "forbidden"
            /\ (/\ opts.stop
                /\ pc \in {"save", "done"}
                /\ \A j \in 1..Len(events) : events[j].what # "failed")
                    => Len(events) = Len(req)

\* C17: no Phase is constructed with a name that is "all" up to letter case,
\* whether the name comes from the class or from the wrapped function.
C17_NameAllRefused ==
    built.error = "none" => Lower(built.name) # All

\* C18: for a sweep of at least one loop, all loops with values: what a
\* generator has yielded is the beginning of what the nested for loops
\* written in the order of the declaration produce (first variable outermost,
\* last innermost, each Config holding all variables in that order); a
\* generator that has ended has yielded all of it; and when the values of
\* every loop are pairwise different, so are the Configs yielded.
C18_NestedLoopOrder ==
    LET RECURSIVE Nested(_)
        Nested(k) ==
            IF k > Len(loops) THEN << <<>> >>
            ELSE LET rest == Nested(k + 1) IN
                 [m \in 1..(Len(loops[k].vals) * Len(rest)) |->
                    << <<loops[k].var, loops[k].vals[((m - 1) \div Len(rest)) + 1]>> >>
                        \o rest[((m - 1) % Len(rest)) + 1]]
        Distinct(q) == \A a, b \in 1..Len(q) : a # b => q[a] # q[b]
    IN
    (Len(loops) >= 1 /\ \A k \in 1..Len(loops) : loops[k].vals # <<>>) =>
        \A t \in 1..Len(traversals) :
            LET g == traversals[t] IN
            /\ Len(g.out) <= Len(Nested(1))
            /\ g.out = SubSeq(Nested(1), 1, Len(g.out))
            /\ g.pc = "ended" => g.out = Nested(1)
            /\ g.pc = "yielded" => g.out # <<>>
            /\ (\A k \in 1..Len(loops) : Distinct(loops[k].vals)) => Distinct(g.out)

\* C18 witness: three loops of two different values each, traversed to the
\* end: eight Configs
C18_Witness ==
    /\ Len(loops) = 3
    /\ \A k \in 1..3 : loops[k].vals = <<0, 1>>
    /\ \E t \in 1..Len(traversals) :
            /\ traversals[t].pc = "ended"
            /\ Len(traversals[t].out) = 8

\* C19: len(Unroller) is the product of the lengths of the loops' values, in
\* every state after the construction; no generator has yielded more Configs
\* than that, and a generator that has ended has yielded exactly that many.
C19_LenIsProduct ==
    LET RECURSIVE Prod(_)
        Prod(k) == IF k > Len(loops) THEN 1 ELSE Len(loops[k].vals) * Prod(k + 1)
    IN
    /\ __len__ = Prod(1)
    /\ \A t \in 1..Len(traversals) :
            /\ Len(traversals[t].out) <= __len__
            /\ traversals[t].pc = "ended" => Len(traversals[t].out) = __len__

\* C19 witness: loops of two, one and two values; a generator has ended
\* after four Configs
C19_Witness ==
    /\ Len(loops) = 3
    /\ Len(loops[1].vals) = 2
    /\ Len(loops[2].vals) = 1
    /\ Len(loops[3].vals) = 2
    /\ __len__ = 4
    /\ \E t \in 1..Len(traversals) :
            traversals[t].pc = "ended" /\ Len(traversals[t].out) = 4

\* C20: any two generators of one Unroller have yielded the same Configs as
\* far as both have got, beginning with the first values of all loops,
\* whether the other one has ended, was left part-way or is still consumed.
C20_Restartable ==
    \A t, u \in 1..Len(traversals) :
        LET g == traversals[t]
            h == traversals[u]
        IN
        /\ \A k \in 1..Len(g.out) : k <= Len(h.out) => g.out[k] = h.out[k]
        /\ (g.pc = "ended" /\ h.pc = "ended") => g.out = h.out
        /\ g.out # <<>> =>
                g.out[1] = [k \in 1..Len(loops) |-> <<loops[k].var, loops[k].vals[1]>>]

\* C20 witness: the first generator was left after two Configs, the second,
\* taken later, has run to its end and yielded four
C20_Witness ==
    /\ Len(traversals) = 2
    /\ traversals[1].pc = "yielded"
    /\ Len(traversals[1].out) = 2
    /\ traversals[2].pc = "ended"
    /\ Len(traversals[2].out) = 4
    /\ traversals[2].out[3] # traversals[2].out[1]

\* C21: when a loop of the sweep, at any place, has no values, len is 0 and
\* no generator yields anything: its first next() ends it.
C21_EmptyLoopYieldsNothing ==
    (\E k \in 1..Len(loops) : loops[k].vals = <<>>) =>
        /\ __len__ = 0
        /\ \A t \in 1..Len(traversals) :
                /\ traversals[t].out = <<>>
                /\ traversals[t].pc \in {"new", "ended"}

\* C21 witness: three loops, the middle one without values; a generator
\* has ended
C21_Witness ==
    /\ Len(loops) = 3
    /\ loops[1].vals # <<>>
    /\ loops[2].vals = <<>>
    /\ loops[3].vals # <<>>
    /\ \E t \in 1..Len(traversals) : traversals[t].pc = "ended"

\* C22 as claimed: an Unroller of no loops yields nothing.
C22_NoLoopsYieldNothing ==
    loops = <<>> => \A t \in 1..Len(traversals) : traversals[t].out = <<>>

\* C22 amended: an Unroller of no loops has len 1 and yields exactly one
\* Config, the empty one, then ends.
C22_NoLoopsYieldOneEmpty ==
    loops = <<>> =>
        /\ __len__ = 1
        /\ \A t \in 1..Len(traversals) :
                /\ traversals[t].pc = "new" => traversals[t].out = <<>>
                /\ traversals[t].pc # "new" => traversals[t].out = << <<>> >>

\* C22 witness: a generator of an Unroller of no loops has ended after one
\* Config
C22_Witness ==
    /\ loops = <<>>
    /\ \E t \in 1..Len(traversals) :
            traversals[t].pc = "ended" /\ Len(traversals[t].out) = 1

(***************************************************************************)
(* Experiment(...): set_config, lines 787-793, and reuse, lines 797-819.   *)
(* A new Experiment is constructed with the same phases, a resultfile, a   *)
(* reusefile and saveresult; the caller keeps the result store of the      *)
(* Experiment before it.                                                   *)
(***************************************************************************)
MaxExperiments == 2   \* Experiments constructed, one after another

\* result.config, the copy of the config made by line 793: the config holds
\* REUSE_FILE when a reuse file is named
ConfigValue(sf) ==
    CASE sf = <<>>        -> "config"
      [] sf = DefaultFile -> "config REUSE_FILE=r"
      [] OTHER            -> "config REUSE_FILE=r.old"

\* the orders in which a dbm may hand out the keys of S
Orders(S) ==
    { q \in ListsUpTo(S, Cardinality(S)) :
        Len(q) = Cardinality(S) /\ \A x \in S : \E j \in 1..Len(q) : q[j] = x }

\* the objects a store holds, and a heap without the others
Live(d) == { d[k] : k \in DOMAIN d } \cap Objects
Collect(hp, live) == [o \in Objects |-> IF o \in live THEN hp[o] ELSE Free]

\* the identity of a new object
Fresh(hp) == CHOOSE o \in Objects : hp[o] = Free

\* mutant: the file named is taken to exist whether it does or not
Missing_never(sf) == FALSE

\* lines 804-808: a reuse file is named and does not exist
Missing(sf) == sf # <<>> /\ ~Fs[sf].exists

\* mutant: values equal to those of the store before are taken from it
LoadValue_shared(k, v, hp) ==
    IF k \in DOMAIN kept' /\ kept'[k] \in Objects /\ hp[kept'[k]] = v
    THEN kept'[k]
    ELSE IF v \in Mutable THEN Fresh(hp) ELSE v

\* line 812: copy.deepcopy of an unpickled value is a new object when the
\* value is mutable
LoadValue(k, v, hp) == IF v \in Mutable THEN Fresh(hp) ELSE v

\* lines 810-813: `self.result[k] = copy.deepcopy(v)` for the items of the
\* shelve in the order todo
RECURSIVE Load(_, _, _, _, _)
Load(todo, db, res, ks, hp) ==
    IF todo = <<>> THEN [res |-> res, ks |-> ks, hp |-> hp]
    ELSE LET k == Head(todo)
             v == LoadValue(k, db[k], hp)
         IN Load(Tail(todo), db, Put(res, k, v), Append(ks, k),
                 IF v \in Objects THEN [hp EXCEPT ![v] = db[k]] ELSE hp)

\* the keys reuse loads
Reused(sf) == IF sf = <<>> \/ Missing(sf) THEN {} ELSE DOMAIN Fs[sf].db

\* line 793: `self.result.config = ...` on the store reuse has filled
WithConfig(ks) ==
    IF \E j \in 1..Len(ks) : ks[j] = ConfigKey THEN ks ELSE Append(ks, ConfigKey)

\* mutant: a 'config' entry that reuse has loaded is kept
SetConfig_keep(res, sf) ==
    IF ConfigKey \in DOMAIN res THEN res ELSE Put(res, ConfigKey, ConfigValue(sf))

\* line 793: self.result.config = copy.deepcopy(self.config); Config.__setattr__
\* assigns the item, whether reuse has loaded such a key or not
SetConfig(res, sf) == Put(res, ConfigKey, ConfigValue(sf))

NewExperiment(rf, sf, sr) ==
    /\ pc \in {"idle", "failed"}
    /\ made < MaxExperiments
    /\ made' = made + 1
    /\ saveresult' = sr
    /\ resultfile' = rf
    /\ reusefile' = sf
    /\ RESULT_FILE' = Unset
    /\ checkpoint' = NoCheckpoint
    /\ run_counter' = [i \in PhaseIds |-> 0]
    /\ asked' = {}
    /\ kept' = IF setup = "ok" THEN result ELSE kept
    /\ file' = Fs[IF rf # <<>> THEN rf ELSE DefaultFile]
    /\ fileOld' = Fs[(IF rf # <<>> THEN rf ELSE DefaultFile) \o OldExt]
    /\ elsewhere' = Fs
    /\ \E todo \in Orders(Reused(sf)) :
         LET hp0 == Collect(heap, Live(kept'))
             l   == Load(todo, Fs[sf].db, <<>>, <<>>, hp0)
         IN
         IF Missing(sf)
         THEN \* line 808: ValueError leaves reuse, set_config and __init__
              /\ setup' = "ValueError"
              /\ pc' = "failed"
              /\ result' = <<>>
              /\ keys' = <<>>
              /\ heap' = hp0
         ELSE /\ setup' = "ok"
              /\ pc' = "idle"
              /\ result' = SetConfig(l.res, sf)
              /\ keys' = WithConfig(l.ks)
              /\ heap' = l.hp
    /\ start' = [rc |-> run_counter', res |-> result', f |-> file', old |-> fileOld']
    /\ UNCHANGED <<phases, req, opts, idx, stack, retval, dflt, outcome, requested,
                   order, events, saves, pickler>>
    /\ UNCHANGED <<reply, sought, found, built, unroller>>

(***************************************************************************)
(* The caller of an Experiment writes ex.result[k] = v, and appends to a   *)
(* list that the store holds.                                              *)
(***************************************************************************)
NewList == "[]"   \* the expression [], a new list at every evaluation

SetItem(k, v) ==
    /\ pc = "idle"
    /\ requested < MaxRequests
    /\ requested' = requested + 1
    /\ LET hp0 == Collect(heap, Live(kept) \cup
                                Live([j \in DOMAIN result \ {k} |-> result[j]]))
           x   == IF v = NewList THEN Fresh(hp0) ELSE v
       IN
       /\ IF k \in DOMAIN result
          THEN Pickled(result[k]) # (IF v = NewList THEN EmptyList ELSE v)
          ELSE TRUE
       /\ result' = Put(result, k, x)
       /\ keys' = KeysAfter(Put(result, k, x))
       /\ heap' = IF v = NewList THEN [hp0 EXCEPT ![x] = EmptyList] ELSE hp0
    /\ UNCHANGED <<phases, saveresult, run_counter, asked, file, fileOld, pc, req,
                   opts, idx, stack, retval, dflt, outcome, start, order, events,
                   saves>>
    /\ UNCHANGED <<reply, sought, found, built, unroller, files, kept>>

\* ex.result[k].append(...)
Mutate(k) ==
    /\ pc = "idle"
    /\ k \in DOMAIN result
    /\ result[k] \in Objects
    /\ heap[result[k]] = EmptyList
    /\ heap' = [heap EXCEPT ![result[k]] = Appended]
    /\ UNCHANGED <<phases, saveresult, run_counter, asked, result, file, fileOld, pc,
                   req, opts, idx, stack, retval, dflt, outcome, requested, start,
                   order, events, saves>>
    /\ UNCHANGED <<reply, sought, found, built, unroller, files, keys, kept>>

\* two phases: the subclass TestPhase1 and a wrapped function that returns a
\* value or nothing
FileRegistrations ==
    { <<Ph(NameA, "late", "ifmissing", "true", FALSE, "spam", "never", <<>>),
        Ph(NameB, "wrap", "true", "true", FALSE, out, "never", <<>>)>> :
        out \in {"eggs", None} }

ItemKey     == NameB \o ResultSuffix
ItemValues  == {NewList, "generator", "lambda"}
ResultFiles == { <<>>, DottedFile }
ReuseFiles  == { <<>>, DefaultFile, DefaultFile \o OldExt }
FileArgs    == { [kind |-> "str", s |-> All], [kind |-> "list", l |-> <<>>],
                 [kind |-> "list", l |-> <<NameA>>] }

NextFiles ==
    \/ \E rf \in ResultFiles, sf \in ReuseFiles : NewExperiment(rf, sf, saveresult)
    \/ \E v \in ItemValues : SetItem(ItemKey, v)
    \/ Mutate(ItemKey)
    \/ \E arg \in FileArgs, n \in BOOLEAN : RunCall(arg, FALSE, FALSE, n)
    \/ LoopStep
    \/ Invoke
    \/ ReturnFrame
    \/ Save
    \/ Return

SpecFiles == InitOn(FileRegistrations, BOOLEAN, { <<>> }, {"cPickle", "pickle"}) /\ [][NextFiles]_vars

(***************************************************************************)
(* Run counters and the keys Phase.run writes.                             *)
(***************************************************************************)
\* the invocation of run that this step makes, when it makes one
Invoked == order'[Len(order')]
Invokes == Len(order') = Len(order) + 1

OthersKeep(i) == \A j \in PhaseIds \ {i} : run_counter'[j] = run_counter[j]

\* C27, as stated: every invocation of a phase's run, whether it returns or
\* raises an exception or a dependency request, increments the run counter of
\* that phase by exactly one.
C27_EveryInvocationCounts ==
    [][Invokes =>
         /\ run_counter'[Invoked.ph] = run_counter[Invoked.ph] + 1
         /\ OthersKeep(Invoked.ph)]_vars

\* C27, amended: an invocation of Phase.run increments the run counter by
\* exactly one when the wrapped function returns and leaves it as it was when
\* the wrapped function raises an exception or a dependency request; the
\* subclass PhaseThatFails, which counts first, increments it in every case.
\* No other counter changes.
C27_ReturningInvocationCounts ==
    [][Invokes =>
         /\ run_counter'[Invoked.ph] =
                run_counter[Invoked.ph] +
                (IF Invoked.how = "returned" \/ phases[Invoked.ph].style = "early"
                 THEN 1 ELSE 0)
         /\ OthersKeep(Invoked.ph)]_vars

\* a wrapped function has asked for its prerequisite, has then returned, and
\* its phase was counted once for the two invocations
C27_Witness ==
    \E j \in 1..Len(order), k \in 1..Len(order) :
        /\ j < k
        /\ order[j].ph = order[k].ph
        /\ phases[order[j].ph].style = "wrap"
        /\ order[j].how = "dep"
        /\ order[k].how = "returned"
        /\ run_counter[order[j].ph] = 1

\* what the invocation of this step returned to run_a_phase
ReturnedNow ==
    IF Len(retval') > Len(retval) THEN retval'[Len(retval')] ELSE dflt'[Len(dflt')]

\* the key Phase.run derives from the name of the phase invoked
ResultKey == phases[Invoked.ph].name \o ResultSuffix

\* C28: when the run of a phase returns a value v that is not None, the
\* result store then maps <phase name>_result to v; when it returns None, that
\* key is neither added nor changed.
C28_ReturnValueIsStored ==
    [][(Invokes /\ Invoked.how = "returned") =>
         IF ReturnedNow # None
         THEN ResultKey \in DOMAIN result' /\ result'[ResultKey] = ReturnedNow
         ELSE /\ ResultKey \in DOMAIN result' <=> ResultKey \in DOMAIN result
              /\ ResultKey \in DOMAIN result => result'[ResultKey] = result[ResultKey]]_vars

\* the wrapped function b has returned "eggs" where the caller had stored a
\* generator under b_result, or has returned None and left that generator
C28_Witness ==
    /\ order # <<>>
    /\ order[Len(order)].how = "returned"
    /\ phases[order[Len(order)].ph].style = "wrap"
    /\ "generator" \in { start.res[k] : k \in DOMAIN start.res }
    /\ ItemKey \in DOMAIN result
    /\ result[ItemKey] = (IF phases[order[Len(order)].ph].out = None
                          THEN "generator" ELSE "eggs")

(***************************************************************************)
(* Reuse files and result files.                                           *)
(***************************************************************************)
\* this step constructs an Experiment
Constructs == made' = made + 1

\* C29: with saveresult false no step of an Experiment writes, creates or
\* moves a file, config.RESULT_FILE is None after every save, and the result
\* store receives what a phase that returns has written: the key of the
\* subclass, or <name>_result for a wrapped function that returns a value.
C29_NoSaveresultNoFile ==
    [][~saveresult =>
         /\ \A p \in Paths : Fs'[p] = Fs[p]
         /\ saves' > saves => RESULT_FILE' = NoPath
         /\ (Invokes /\ Invoked.how = "returned") =>
               LET p == phases[Invoked.ph] IN
               /\ p.style # "wrap" =>
                     p.key \in DOMAIN result' /\ result'[p.key] = p.out
               /\ (p.style = "wrap" /\ p.out # None) =>
                     ResultKey \in DOMAIN result' /\ result'[ResultKey] = p.out]_vars

\* run("all") has ended with saveresult false: save was called, no file
\* exists, and the store holds what TestPhase1 wrote
C29_Witness ==
    /\ ~saveresult
    /\ pc = "done"
    /\ saves = 1
    /\ RESULT_FILE = NoPath
    /\ \A p \in Paths : ~Fs[p].exists
    /\ phases[1].key \in DOMAIN result
    /\ result[phases[1].key] = "spam"

\* C26: when a reuse file is named and does not exist, the construction of
\* the Experiment ends with ValueError: no phase has run, no file has been
\* written or moved, and nothing can be asked of the Experiment, since there
\* is none; the only step after it constructs another.
C26_MissingReuseFileFails ==
    [][/\ (Constructs /\ reusefile' # <<>> /\ ~Fs[reusefile'].exists) =>
            /\ setup' = "ValueError"
            /\ pc' = "failed"
            /\ \A i \in PhaseIds : run_counter'[i] = 0
            /\ \A p \in Paths : Fs'[p] = Fs[p]
       /\ setup = "ValueError" => Constructs]_vars

\* an Experiment was asked to reuse a file that does not exist
C26_Witness ==
    /\ setup = "ValueError"
    /\ pc = "failed"
    /\ reusefile # <<>>
    /\ ~Fs[reusefile].exists

\* C30, as stated: while an Experiment reuses a file at a path other than the
\* path it saves to, no run and no save changes the file at the reuse path;
\* the reuse file is overwritten only when it is the result file.
C30_ReuseFileNotOverwritten ==
    [][(/\ ~Constructs
        /\ setup = "ok"
        /\ reusefile # <<>>
        /\ reusefile # Destination) =>
          Fs'[reusefile] = Fs[reusefile]]_vars

\* C24, as stated: a save that writes finds a file at the destination path only
\* to move it to the destination path + ".old" before it writes, so that the
\* content of before the save is at the backup path after it.
C24_DestinationIsRotated ==
    [][(saves' > saves /\ saveresult /\ Fs[Destination].exists) =>
          Fs'[Destination \o OldExt] = Fs[Destination]]_vars

\* C25, as stated: a save that writes never raises; every key of the result
\* store whose value can be serialized is in the result file afterwards with
\* that value, wherever in the store a value that cannot be serialized is, and
\* the result store itself is left as it was.
C25_UnserializableSkipped ==
    [][(saves' > saves /\ saveresult) =>
          /\ outcome' = "returned"
          /\ result' = result
          /\ \A k \in DOMAIN result :
                PickleError(result[k]) = "none" =>
                    /\ k \in DOMAIN Fs'[Destination].db
                    /\ Fs'[Destination].db[k] = Pickled(result[k])]_vars

\* this step constructs an Experiment that reuses the file the Experiment
\* before it has last saved to
Resumes ==
    /\ Constructs
    /\ setup' = "ok"
    /\ RESULT_FILE.is = "str"
    /\ reusefile' = RESULT_FILE.path

\* the value of key k in the store of after this step
ValueNow(k) == IF result'[k] \in Objects THEN heap'[result'[k]] ELSE result'[k]

\* this step changes a list that the result store holds
Mutates == ~Constructs /\ result' = result /\ heap' # heap

\* a change of a list of the store changes no file and no value of the store
\* of the Experiment before
Independent ==
    Mutates =>
        /\ \A p \in Paths : Fs'[p] = Fs[p]
        /\ \A k \in DOMAIN kept :
              kept[k] \in Objects => heap'[kept[k]] = heap[kept[k]]

\* C23, as stated: every key that the result store had when save wrote the
\* checkpoint is, with an equal value, in the store of a new Experiment that
\* reuses the file, whether or not it also saves to that file; and a change
\* of a resumed value changes neither the file nor the value of before.
C23_RoundTrip ==
    [][/\ Resumes =>
            \A k \in DOMAIN checkpoint.store :
                k \in DOMAIN result' /\ ValueNow(k) = checkpoint.store[k]
       /\ Independent]_vars

\* C23, amended: every key other than "config" whose value that save has
\* written is, with an equal value, in the store of a new Experiment that
\* reuses the file; the key "config" holds the config of the new Experiment;
\* and a change of a resumed value changes neither the file nor the value of
\* before.
C23_WrittenKeysRoundTrip ==
    [][/\ Resumes =>
            /\ \A k \in checkpoint.written \ {ConfigKey} :
                  k \in DOMAIN result' /\ ValueNow(k) = checkpoint.store[k]
            /\ result'[ConfigKey] = ConfigValue(reusefile')
       /\ Independent]_vars

\* a second Experiment has reused the file the first saved a list to, and
\* has appended to its list: the list of the first and the file are as before
C23_Witness ==
    /\ made = 2
    /\ setup = "ok"
    /\ reusefile # <<>>
    /\ ItemKey \in DOMAIN result
    /\ ItemKey \in DOMAIN kept
    /\ ItemKey \in DOMAIN Fs[reusefile].db
    /\ result[ItemKey] \in Objects
    /\ kept[ItemKey] \in Objects
    /\ heap[result[ItemKey]] = Appended
    /\ heap[kept[ItemKey]] = EmptyList
    /\ Fs[reusefile].db[ItemKey] = EmptyList

(***************************************************************************)
(* Config (src/config.py): the result store ex.result is a Config.  Its    *)
(* items are result, in the order keys; a name is a sequence of            *)
(* characters.                                                             *)
(***************************************************************************)
NameX    == <<"x">>
NameKeys == <<"k", "e", "y", "s">>   \* the name of a method of OrderedDict
NameP    == <<"_", "p">>

\* n.startswith('_')
Underscore(n) == n # <<>> /\ Head(n) = "_"

\* the attributes the class gives every Config: the methods of OrderedDict
Builtin(n) == n = NameKeys
Method == "<bound method>"

\* mutant: a name that is not a key is always refused
Shadows_always(c, n) == n \notin DOMAIN c

\* line 99: hasattr(self, n) and n not in self; hasattr is true for an
\* attribute of the class and, through __getattr__, for a key
Shadows(c, n) == (Builtin(n) \/ n \in DOMAIN c) /\ n \notin DOMAIN c

\* the order of the keys after `del self[n]`
RECURSIVE Without(_, _)
Without(ks, n) ==
    IF ks = <<>> THEN <<>>
    ELSE IF Head(ks) = n THEN Without(Tail(ks), n)
    ELSE <<Head(ks)>> \o Without(Tail(ks), n)

Reply(op, n, exc, v) == [op |-> op, name |-> n, exc |-> exc, value |-> v]

\* getattr(c, n): the attribute of the class if there is one, else
\* __getattr__, lines 113-119
GetAttrReply(c, n) ==
    IF Builtin(n) THEN Reply("getattr", n, "none", Method)
    ELSE IF n \in DOMAIN c THEN Reply("getattr", n, "none", c[n])
    ELSE Reply("getattr", n, "AttributeError", None)

\* c[n]
GetItemReply(c, n) ==
    IF n \in DOMAIN c THEN Reply("getitem", n, "none", c[n])
    ELSE Reply("getitem", n, "KeyError", None)

ConfigFrame ==
    UNCHANGED <<phases, saveresult, run_counter, asked, file, fileOld, pc, req,
                opts, idx, stack, retval, dflt, outcome, requested, start, order,
                events, saves, sought, found, built, unroller, files, heap, kept>>

\* c.n = v: Config.__setattr__, lines 96-110; after __init__ the flag
\* __allow_underscore_attributes is False
SetAttr(n, v) ==
    /\ pc = "idle"
    /\ IF ~Underscore(n)
       THEN IF Shadows(result, n)
            THEN /\ reply' = Reply("setattr", n, "UserWarning", v)
                 /\ UNCHANGED <<result, keys>>
            ELSE /\ reply' = Reply("setattr", n, "none", v)
                 /\ result' = Put(result, n, v)
                 /\ keys' = KeysAfter(Put(result, n, v))
       ELSE /\ reply' = Reply("setattr", n, "ValueError", v)
            /\ UNCHANGED <<result, keys>>
    /\ ConfigFrame

\* c[n] = v: OrderedDict.__setitem__
SetKey(n, v) ==
    /\ pc = "idle"
    /\ reply' = Reply("setitem", n, "none", v)
    /\ result' = Put(result, n, v)
    /\ keys' = KeysAfter(Put(result, n, v))
    /\ ConfigFrame

\* c.n
GetAttr(n) ==
    /\ pc = "idle"
    /\ reply' = GetAttrReply(result, n)
    /\ UNCHANGED <<result, keys>>
    /\ ConfigFrame

\* c[n]
GetItem(n) ==
    /\ pc = "idle"
    /\ reply' = GetItemReply(result, n)
    /\ UNCHANGED <<result, keys>>
    /\ ConfigFrame

\* del c.n: Config.__delattr__, lines 121-125; an underscore name goes to
\* object.__delattr__, which finds no such attribute
DelAttr(n) ==
    /\ pc = "idle"
    /\ IF Underscore(n)
       THEN /\ reply' = Reply("delattr", n, "AttributeError", None)
            /\ UNCHANGED <<result, keys>>
       ELSE IF n \in DOMAIN result
       THEN /\ reply' = Reply("delattr", n, "none", None)
            /\ result' = [k \in DOMAIN result \ {n} |-> result[k]]
            /\ keys' = Without(keys, n)
       ELSE /\ reply' = Reply("delattr", n, "KeyError", None)
            /\ UNCHANGED <<result, keys>>
    /\ ConfigFrame

\* del c[n]
DelItem(n) ==
    /\ pc = "idle"
    /\ IF n \in DOMAIN result
       THEN /\ reply' = Reply("delitem", n, "none", None)
            /\ result' = [k \in DOMAIN result \ {n} |-> result[k]]
            /\ keys' = Without(keys, n)
       ELSE /\ reply' = Reply("delitem", n, "KeyError", None)
            /\ UNCHANGED <<result, keys>>
    /\ ConfigFrame

ConfigNames  == {NameX, NameKeys, NameP}
ConfigValues == {"spam", "out"}

\* the result store of an Experiment of one phase
NextConfig ==
    \/ \E n \in ConfigNames, v \in ConfigValues : SetAttr(n, v)
    \/ \E n \in ConfigNames, v \in ConfigValues : SetKey(n, v)
    \/ \E n \in ConfigNames : GetAttr(n)
    \/ \E n \in ConfigNames : GetItem(n)
    \/ \E n \in ConfigNames : DelAttr(n)
    \/ \E n \in ConfigNames : DelItem(n)

SpecConfig == InitWith({ <<Plain(NameA)>> }, {TRUE}) /\ [][NextConfig]_vars

(***************************************************************************)
(* Attribute access and item access of a Config.                           *)
(***************************************************************************)
\* the operation this step has made on the Config
Did(op) == reply'.op = op
Stored(n, v) == n \in DOMAIN result' /\ result'[n] = v

\* C31, as stated: for a name that does not start with an underscore, after
\* c.x = v the item c['x'] is v, after c['x'] = v the attribute c.x is v,
\* del c.x removes the key x, and reading an attribute that is not a key
\* raises AttributeError and leaves the mapping unchanged.
C31_AttributeIsItem ==
    [][~Underscore(reply'.name) =>
         /\ (Did("setattr") /\ reply'.exc = "none") =>
                Stored(reply'.name, reply'.value)
         /\ Did("setitem") =>
                /\ GetAttrReply(result', reply'.name).exc = "none"
                /\ GetAttrReply(result', reply'.name).value = reply'.value
         /\ (Did("delattr") /\ reply'.name \in DOMAIN result) =>
                reply'.name \notin DOMAIN result'
         /\ (Did("getattr") /\ reply'.name \notin DOMAIN result) =>
                reply'.exc = "AttributeError" /\ result' = result]_vars

\* C31, amended: the four equalities hold for a name that neither starts with
\* an underscore nor is an attribute of the class (a method of OrderedDict
\* such as keys), and for such a name c.x = v always completes.  For the name
\* of a method, c.x = v raises UserWarning and stores nothing unless the name
\* is a key already, c['x'] = v stores v, and c.x reads the method whether or
\* not the name is a key.
C31_AttributeIsItemUnlessShadowed ==
    [][/\ (~Underscore(reply'.name) /\ ~Builtin(reply'.name)) =>
            /\ Did("setattr") =>
                   reply'.exc = "none" /\ Stored(reply'.name, reply'.value)
            /\ Did("setitem") =>
                   /\ GetAttrReply(result', reply'.name).exc = "none"
                   /\ GetAttrReply(result', reply'.name).value = reply'.value
            /\ (Did("delattr") /\ reply'.name \in DOMAIN result) =>
                   reply'.name \notin DOMAIN result'
            /\ (Did("getattr") /\ reply'.name \notin DOMAIN result) =>
                   reply'.exc = "AttributeError" /\ result' = result
       /\ Builtin(reply'.name) =>
            /\ (Did("setattr") /\ reply'.name \notin DOMAIN result) =>
                   reply'.exc = "UserWarning" /\ result' = result
            /\ Did("setitem") => Stored(reply'.name, reply'.value)
            /\ Did("getattr") =>
                   reply'.exc = "none" /\ reply'.value = Method]_vars

\* the item 'keys' has been assigned, and c.keys has given the method
C31_Witness ==
    /\ reply.op = "getattr"
    /\ reply.name = NameKeys
    /\ NameKeys \in DOMAIN result
    /\ reply.value = Method
    /\ NameX \in DOMAIN result

(***************************************************************************)
(* backupFile(path, backup_extension) called by itself, on files that the  *)
(* caller writes with open(path, 'w').                                     *)
(***************************************************************************)
\* the file at a path; no file is at a path outside the model
At(fs, q) == IF q \in Paths THEN fs[q] ELSE NoFile

\* a file that holds a text
Text(c) == [exists |-> TRUE, db |-> [k \in {<<"t">>} |-> c]]

\* lines 1130-1135: an extension gets a "." in front unless it has one; the
\* branch for the extension "." is never entered
Extension(ext) ==
    IF ext # <<>> /\ Head(ext) = "." THEN ext ELSE <<".">> \o ext

\* lines 1127-1143: the files after backupFile(path, ext), and what it returns
Backup(fs, path, ext) ==
    LET t == BackupTarget(path)
        b == t \o Extension(ext)
    IN
    IF At(fs, t).exists
    THEN [fs |-> [q \in Paths |-> IF q = t THEN NoFile
                                  ELSE IF q = b THEN fs[t] ELSE fs[q]],
          ok |-> "True"]
    ELSE [fs |-> fs, ok |-> "False"]

FilesFrame ==
    UNCHANGED <<phases, saveresult, run_counter, asked, result, pc, req, opts, idx,
                stack, retval, dflt, outcome, requested, start, order, events,
                saves, sought, found, built, unroller, objects, resultfile,
                reusefile, RESULT_FILE, pickler, setup, made, checkpoint>>

BackupCall(path, ext) ==
    /\ pc = "idle"
    /\ reply' = [op |-> "backupFile", name |-> path, ext |-> ext, exc |-> "none",
                 value |-> Backup(Fs, path, ext).ok]
    /\ elsewhere' = Backup(Fs, path, ext).fs
    /\ file' = Backup(Fs, path, ext).fs[Destination]
    /\ fileOld' = Backup(Fs, path, ext).fs[Destination \o OldExt]
    /\ FilesFrame

\* f = open(path, 'w'); f.write(c); f.close()
WriteFile(path, c) ==
    /\ pc = "idle"
    /\ reply' = [op |-> "write", name |-> path, ext |-> <<>>, exc |-> "none",
                 value |-> c]
    /\ elsewhere' = [Fs EXCEPT ![path] = Text(c)]
    /\ file' = IF path = Destination THEN Text(c) ELSE file
    /\ fileOld' = IF path = Destination \o OldExt THEN Text(c) ELSE fileOld
    /\ FilesFrame

BackupPaths == {DefaultFile, DottedFile}
BackupExts  == {OldExt, BakExt, <<"b", "a", "k">>}
Texts       == {"foo1", "foo2"}

NextBackup ==
    \/ \E path \in BackupPaths, ext \in BackupExts : BackupCall(path, ext)
    \/ \E path \in BackupPaths, c \in Texts : WriteFile(path, c)

SpecBackup == InitWith({ <<Plain(NameA)>> }, {TRUE}) /\ [][NextBackup]_vars

\* C32, as stated: backupFile(path, ext) on an existing file leaves no file at
\* path and the former content of path at path + ext, whatever was there,
\* and returns True; without a file at path it changes nothing and returns
\* False; the files at all other paths are left as they are.
C32_BackupMovesTheFile ==
    [][Did("backupFile") =>
         LET path == reply'.name
             ext  == reply'.ext
         IN
         IF Fs[path].exists
         THEN /\ ~Fs'[path].exists
              /\ At(Fs', path \o ext) = Fs[path]
              /\ reply'.value = "True"
              /\ \A q \in Paths \ {path, path \o ext} : Fs'[q] = Fs[q]
         ELSE /\ \A q \in Paths : Fs'[q] = Fs[q]
              /\ reply'.value = "False"]_vars

(***************************************************************************)
(* Repeated checkpoints.                                                   *)
(***************************************************************************)
\* this step is a save that writes, and the save before it found the result
\* store as it is now
SavesAgain ==
    /\ saves' > saves
    /\ saveresult
    /\ checkpoint # NoCheckpoint
    /\ checkpoint.store = [k \in DOMAIN result |-> Pickled(result[k])]

\* C33, as stated: a second save of an unchanged result store leaves the
\* destination file with the content the first save gave it, and the backup
\* file with that same content.
C33_SaveIsIdempotent ==
    [][SavesAgain =>
         /\ Fs'[Destination] = Fs[Destination]
         /\ Fs'[Destination \o OldExt] = Fs[Destination]]_vars

(***************************************************************************)
(* Dependency requests that never stop.                                    *)
(***************************************************************************)
\* the run of phase i raises DependsOnAnotherPhase at every attempt
AlwaysAsks(i) == phases[i].dep = "always"

Requests == {j \in 1..Len(order) : order[j].how = "dep"}

\* C34 as claimed: a requested phase that raises a dependency request on every
\* attempt is never finished by the pass: its iteration stays in run_a_phase,
\* no later requested phase is attempted and the checkpoint is not reached.
C34_CycleNeverEnds ==
    \A k \in 1..Len(events) :
        AlwaysAsks(events[k].ph) =>
            /\ events[k].what = "running"
            /\ k = Len(events)
            /\ pc = "run"
            /\ saves = 0

\* C34 amended: no cycle detection is performed; the run of such a phase never
\* returns and the nesting of run_a_phase grows up to the recursion limit of
\* the interpreter.  The RuntimeError raised there is handled like any failure
\* of the requested phase: it does not leave Experiment.run, the loop goes on
\* with the next requested phase (or halts when stopOnException is set) and
\* the checkpoint is written.
C34_CycleEndsAsFailure ==
    /\ Len(stack) <= MaxDepth
    /\ \A j \in 1..Len(order) : AlwaysAsks(order[j].ph) => order[j].how = "dep"
    /\ \A k \in 1..Len(events) :
        AlwaysAsks(events[k].ph) =>
            /\ events[k].what \in {"running", "failed"}
            /\ events[k].what = "failed" => Cardinality(Requests) >= MaxDepth
            /\ outcome \in {"none", "returned"}
            /\ (opts.stop /\ events[k].what = "failed")
                    => (k = Len(events) /\ pc \in {"save", "done"})
            /\ (~opts.stop /\ pc \in {"save", "done"}) => Len(events) = Len(req)
            /\ pc = "done" => saves = (IF opts.nosave THEN 0 ELSE 1)

\* C34 witness: b asks for itself at every attempt; the call for [b, a] has
\* failed b, completed A and saved
C34_Witness ==
    /\ pc = "done"
    /\ req = << <<"b">>, <<"a">> >>
    /\ phases[2].on = <<"b">>
    /\ AlwaysAsks(2)
    /\ events = << [ph |-> 2, what |-> "failed"], [ph |-> 1, what |-> "completed"] >>
    /\ Cardinality(Requests) = MaxDepth
    /\ saves = 1
    /\ file.exists

(***************************************************************************)
(* Termination.                                                            *)
(***************************************************************************)
Final == {"skipped", "forbidden", "completed", "failed", "error"}

InPass == pc \in {"loop", "run"}

\* C35 as claimed: every call of run terminates, every requested phase has
\* reached a final outcome by then, and the pass has reached the checkpoint
\* step.
C35_EveryCallEndsEveryPhase ==
    /\ InPass ~> (pc = "save")
    /\ (pc = "save") ~> (pc = "done")
    /\ [](pc = "done" =>
            /\ outcome # "ValueError"
            /\ Len(events) = Len(req)
            /\ \A k \in 1..Len(events) : events[k].what \in Final)

\* C35 amended: a call whose names all resolve terminates: its pass reaches
\* the checkpoint step and the call returns; by then every requested phase
\* the loop has reached has a final outcome, and the loop has reached all of
\* them unless stopOnException halted it at a failure.  A call with a name
\* that does not resolve ends at once with ValueError.
C35_ResolvedCallsTerminate ==
    /\ InPass ~> (pc = "save")
    /\ (pc = "save") ~> (pc = "done")
    /\ [](pc \in {"save", "done"} =>
            IF AllResolve(req)
            THEN /\ outcome # "ValueError"
                 /\ \A k \in 1..Len(events) : events[k].what \in Final
                 /\ \/ Len(events) = Len(req)
                    \/ /\ opts.stop
                       /\ events # <<>>
                       /\ events[Len(events)].what \in {"failed", "error"}
            ELSE pc = "done" /\ outcome = "ValueError" /\ events = <<>>)

\* C35 witness: b asked for A, A ran, b ran again and completed; the call
\* has saved and returned
C35_Witness ==
    /\ pc = "done"
    /\ outcome = "returned"
    /\ req = << <<"b">>, <<"a">> >>
    /\ order[1] = [ph |-> 2, how |-> "dep"]
    /\ events = << [ph |-> 2, what |-> "completed"], [ph |-> 1, what |-> "skipped"] >>
    /\ saves = 1

(***************************************************************************)
(* Failures below a dependency request.                                    *)
(***************************************************************************)
\* the phase of the request list that the loop is at
Requesting == stack[1].ph

\* the iteration ends as a failure of the requested phase: every frame of
\* run_a_phase is left, the exception stays inside run, the loop goes on with
\* the next name or, with stopOnException, to the checkpoint
EndsAsFailure ==
    /\ stack' = <<>>
    /\ events[Len(events)].ph = Requesting
    /\ events' = [events EXCEPT ![Len(events)].what = "failed"]
    /\ outcome = "none"
    /\ outcome' = "none"
    /\ saves' = 0
    /\ pc' = (IF opts.stop \/ idx >= Len(req) THEN "save" ELSE "loop")
    /\ idx' = (IF opts.stop \/ idx >= Len(req) THEN idx ELSE idx + 1)

SomeFailed == \E k \in 1..Len(events) : events[k].what = "failed"

\* the run of a prerequisite, called at line 901, raises Exception
PrerequisiteRaises ==
    /\ pc = "run"
    /\ Len(stack) >= 2
    /\ Top.stage = "call"
    /\ Top.ph # NoPhase
    /\ order' = Append(order, [ph |-> Top.ph, how |-> "raised"])

\* C36: when the run of the prerequisite Q of a dependency request of P raises
\* an ordinary exception, P is not run again for that request: the iteration
\* ends as a failure of the requested phase, the loop continues with the next
\* requested phase or halts under stopOnException, and the call still saves.
C36_PrerequisiteFailure ==
    /\ [][PrerequisiteRaises =>
            /\ EndsAsFailure
            /\ result' = result
            /\ \A j \in PhaseIds \ {Top.ph} : run_counter'[j] = run_counter[j]]_vars
    /\ []((pc = "done" /\ SomeFailed) => saves = (IF opts.nosave THEN 0 ELSE 1))

\* C36 witness: b asked for A, A raised; b, requested again, completed, and
\* the call saved
C36_Witness ==
    /\ pc = "done"
    /\ req = << <<"b">>, <<"b">> >>
    /\ order = << [ph |-> 2, how |-> "dep"], [ph |-> 1, how |-> "raised"],
                  [ph |-> 2, how |-> "returned"] >>
    /\ events = << [ph |-> 2, what |-> "failed"], [ph |-> 2, what |-> "completed"] >>
    /\ saves = 1
    /\ file.exists

\* line 901 has called run_a_phase(None): the name of the dependency request
\* resolves to no registered phase
UnregisteredCalled ==
    /\ pc = "run"
    /\ Top.stage = "call"
    /\ Top.ph = NoPhase

\* C37: a dependency request that names no registered phase does not make
\* run raise: no run is invoked for it, the requesting phase is not run again,
\* the iteration ends as a failure of the requested phase, the loop continues
\* or halts under stopOnException, and the call saves as after any failure.
C37_UnregisteredPrerequisite ==
    /\ [][UnregisteredCalled =>
            /\ EndsAsFailure
            /\ order' = order
            /\ run_counter' = run_counter
            /\ result' = result]_vars
    /\ [](outcome # "TypeError")
    /\ []((pc = "done" /\ SomeFailed) => (outcome = "returned" /\ (saves = 0 <=> opts.nosave)))

\* C37 witness: b asked for "x"; b failed, A, requested after it, was run,
\* and the call saved and returned
C37_Witness ==
    /\ pc = "done"
    /\ outcome = "returned"
    /\ req = << <<"b">>, <<"a">> >>
    /\ phases[2].on = <<"x">>
    /\ order[1] = [ph |-> 2, how |-> "dep"]
    /\ Len(order) = 2
    /\ order[2].ph = 1
    /\ events[1] = [ph |-> 2, what |-> "failed"]
    /\ saves = 1

(***************************************************************************)
(* The list run returns.                                                   *)
(***************************************************************************)
IsCompleted(e) == e.what = "completed"

\* the requested phases whose run completed in this call, in that order
Completed == SelectSeq(events, IsCompleted)

\* C38: the list a call of run returns holds, in order of completion, the
\* return value of each requested phase whose run completed in this call, and
\* nothing else; a phase that completed on the retry after a dependency
\* request contributes its own return value.
C38_ReturnedValues ==
    (pc = "done" /\ outcome = "returned") =>
        retval = [k \in 1..Len(Completed) |-> Returned(Completed[k].ph)]

(***************************************************************************)
(* The run counters a call leaves alone.                                   *)
(***************************************************************************)
\* phase i is the first registered phase that the name matches
NamedBy(i, name) ==
    /\ Matches(phases[i], name)
    /\ \A j \in 1..(i - 1) : ~Matches(phases[j], name)

\* the phases named by the request list of the call, or by a dependency
\* request raised in it
Named ==
    { i \in PhaseIds :
        \/ \E k \in 1..Len(req) : NamedBy(i, req[k])
        \/ \E j \in Requests : NamedBy(i, phases[order[j].ph].on) }

\* C39: a call of run changes the run counter only of phases named in its
\* request list or by a dependency request raised during the call.
C39_OtherCountersKeep ==
    \A i \in PhaseIds : run_counter[i] # start.rc[i] => i \in Named

\* C39 witness: only "b" was requested; b asked for A; the counters of A and
\* b have changed, the counter of C has not
C39_Witness ==
    /\ pc = "done"
    /\ req = << <<"b">> >>
    /\ Len(phases) = 3
    /\ run_counter[1] = start.rc[1] + 1
    /\ run_counter[2] = start.rc[2] + 1
    /\ run_counter[3] = start.rc[3]
    /\ Named = {1, 2}

(***************************************************************************)
(* The store after setup.                                                  *)
(***************************************************************************)
\* the store of the file that setup reuses ('config' apart)
Loaded(sf) ==
    IF sf = <<>> THEN {} ELSE DOMAIN Fs[sf].db \ {ConfigKey}

\* C40: after the setup of an Experiment, result['config'] equals the current
\* config, also when the reused store held a 'config' entry of its own, and
\* every other key of the reused store has the value loaded from the file;
\* the store holds nothing else.
C40_ConfigAfterSetup ==
    [][(Constructs /\ setup' = "ok") =>
            /\ DOMAIN result' = Loaded(reusefile') \cup {ConfigKey}
            /\ result'[ConfigKey] = ConfigValue(reusefile')
            /\ \A k \in Loaded(reusefile') : ValueNow(k) = Fs[reusefile'].db[k]]_vars

\* C40 witness: an Experiment was set up from a file whose 'config' entry
\* differs from the current config and which holds another key; nothing has
\* been run or saved since
C40_Witness ==
    /\ made = 2
    /\ setup = "ok"
    /\ pc = "idle"
    /\ RESULT_FILE = Unset
    /\ reusefile # <<>>
    /\ Fs[reusefile].exists
    /\ Fs[reusefile].db[ConfigKey] # ConfigValue(reusefile)
    /\ result[ConfigKey] = ConfigValue(reusefile)
    /\ Loaded(reusefile) # {}
    /\ \A k \in Loaded(reusefile) : Pickled(result[k]) = Fs[reusefile].db[k]

====
